---- MODULE Spec2Model ----
(***************************************************************************)
(* Model of daq2lh5's raw buffers (raw_buffer.py) and of the decoders that *)
(* fill them: LLAMAEventDecoder (llama/llama_event_decoder.py),            *)
(* FSPEventDecoder and FSPStatusDecoder (fc/fc_fsp_decoder.py), and the    *)
(* garbage sink of DataDecoder (data_decoder.py); the configuration        *)
(* expansion expand_rblist_dict (raw_buffer.py); and the registry of FCIO  *)
(* readers (orca/orca_fcio.py).                                            *)
(*                                                                         *)
(* A session holds one RawBufferLibrary.  A llamaDAQ session has the list  *)
(* of the LLAMAEventDecoder, an FCIO session has one list per FSP decoder. *)
(* Python exceptions are outcomes: every call leaves its outcome in ret.   *)
(***************************************************************************)
EXTENDS Integers, Sequences, FiniteSets, TLC

\* ------------------------------------------------------------------ bounds
MaxCap == 2        \* table size (rows) of the buffers
MaxSafety == 2     \* largest fill_safety tried
MaxKeyList == 3    \* entries of a key_list handed to expand_rblist_dict
MaxStreamId == 2   \* largest FCIO stream id
MaxCalls == 5      \* get_fcio_stream calls followed
OrcaBufSize == 2   \* buffer_size of the ORCA buffers
OrcaCalls == 3     \* ORCA packets followed
MaxSkip == 2       \* packets presented for one unrouted key
MaxMult == 2       \* obs_ct_multiplicity of an FSP event
MaxEvents == 4     \* FSP events followed into a table with followed ragged columns

\* ------------------------------------------------------------- vocabulary
None == "None"
Bufs == 1..2                 \* the RawBuffer objects of the session
Keys == 0..2                 \* fch_id's / stream keys
Range(s) == {s[i] : i \in DOMAIN s}

\* out_stream strings, as sequences of characters; ":" is the separator
OutStreams == {<<>>, <<"f">>, <<"f", ":", "g">>, <<":", "g">>, <<"f", ":">>}

\* str.find(":"): index (0-based) of the first ":" or -1
RECURSIVE FindFrom(_, _)
FindFrom(s, i) ==
    IF i > Len(s) THEN -1
    ELSE IF s[i] = ":" THEN i - 1
    ELSE FindFrom(s, i + 1)
find(s) == FindFrom(s, 1)

\* ------------------------------------------------- llamaDAQ SIS3316 packets
\* A packet is a sequence of 32-bit words; evt_data_32[i] is pkt[i+1].  A word
\* is kept as its two 16-bit halves, value hi * 2^16 + lo, which are also the
\* entries evt_data_16[2i+1] and evt_data_16[2i] of the little-endian view.
Word(hi, lo) == [hi |-> hi, lo |-> lo]
TwoP16 == 2 ^ 16
TagNoAvg == 14     \* 0xE: no averaged data follows
TagAvg == 10       \* 0xA: averaged data follows
\* wf_len of the "waveform" and "auxwaveform" columns, in 16-bit samples
\* (config["sample_length"], config["avg_sample_length"])
sample_length == 2
avg_sample_length == 2

Bit(n, k) == (n \div (2 ^ k)) % 2
\* number of 32-bit words of the optional sub-records selected by fmt
OptWords(fmt) == 7 * Bit(fmt, 0) + 2 * Bit(fmt, 1) + 3 * Bit(fmt, 2) + 2 * Bit(fmt, 3)

Fill(n, v) == [i \in 1..n |-> v]

\* The packet the digitizer emits for the given header and trailer fields,
\* followed by nsamp 32-bit words of sample data; a second trailer word is
\* present when the first announces averaged data.
MakePacket(fmt, tag1, maw, rawlen, tag2, avglen, nsamp) ==
    <<Word(3, fmt), Word(0, 9)>>
    \o Fill(OptWords(fmt), Word(0, 7))
    \o <<Word(tag1 * 2 ^ 12 + maw * 2 ^ 11, rawlen)>>
    \o (IF tag1 = TagAvg THEN <<Word(tag2 * 2 ^ 12, avglen)>> ELSE <<>>)
    \o Fill(nsamp, Word(5, 5))

\* Packets a healthy digitizer emits for the configured trace lengths: raw
\* samples only, or raw and averaged samples, or no samples at all.
WellFormedPackets ==
    { MakePacket(f, TagNoAvg, 0, r, TagNoAvg, 0, r) :
        f \in 0..15, r \in {0, sample_length \div 2} }
    \cup
    { MakePacket(f, TagAvg, 0, r, TagNoAvg, a, r + a) :
        f \in 0..15, r \in {0, sample_length \div 2},
        a \in {0, avg_sample_length \div 2} }

\* every combination of trailer tags, announced sample counts and payload
\* length for the formats without and with all optional sub-records, and the
\* packets that carry the MAW test flag
TrailerFormats == {0, 15}
TrailerPackets ==
    { MakePacket(f, t1, 0, r, t2, a, n) :
        f \in TrailerFormats, t1 \in {TagNoAvg, TagAvg, 0},
        r \in 0..1, t2 \in {TagNoAvg, 1}, a \in 0..1, n \in 0..2 }
    \cup
    { MakePacket(f, TagNoAvg, 1, r, TagNoAvg, 0, r) : f \in TrailerFormats, r \in 0..1 }

\* the packets presented to LLAMAEventDecoder.decode_packet in a session
Packets ==
    { MakePacket(0, TagNoAvg, 0, 1, TagNoAvg, 0, 1),    \* raw samples only
      MakePacket(15, TagAvg, 0, 1, TagNoAvg, 1, 2),     \* all sub-records, raw + avg
      MakePacket(0, 0, 0, 1, TagNoAvg, 0, 1),           \* bad first trailer tag
      MakePacket(15, TagAvg, 0, 1, 1, 1, 2),            \* bad second trailer tag
      MakePacket(2, TagNoAvg, 0, 1, TagNoAvg, 0, 2) }   \* one sample word too many

\* The same payloads under other header words: the bits of word 0 outside the
\* format selector and the whole of word 1 belong to the 48-bit timestamp
\* (bits 4..15 of word 0 are the channel id, which the decoder does not read).
WithHeader(pkt, hi, chan, w1) ==
    [pkt EXCEPT ![1] = Word(hi, 16 * chan + pkt[1].lo), ![2] = w1]
HeaderPackets ==
    { WithHeader(p, hi, chan, w1) :
        p \in { MakePacket(0, TagNoAvg, 0, 1, TagNoAvg, 0, 1),
                MakePacket(15, TagAvg, 0, 1, TagNoAvg, 1, 2) },
        hi \in {0, 1, 2 ^ 15 - 1}, chan \in {0, 2 ^ 12 - 1},
        w1 \in {Word(0, 0), Word(2 ^ 16 - 1, 2 ^ 16 - 1)} }
\* the packets of all 16 data formats, and those with the other header words
FormatPackets == WellFormedPackets \cup HeaderPackets

\* ------------------------------------------- LLAMAEventDecoder.decode_packet
\* The optional scalar fields in the order the decoder writes them, each with
\* the (0-based) 32-bit word it reads; evt_data_16[4] and [5] lie in word 2.
Group1 ==
    << <<"peakHighValue", 2>>, <<"peakHighIndex", 2>>, <<"information", 3>>,
       <<"accSum1", 4>>, <<"accSum2", 5>>, <<"accSum3", 6>>,
       <<"accSum4", 7>>, <<"accSum5", 8>>, <<"accSum6", 9>> >>
Group2(o) == << <<"accSum7", o>>, <<"accSum8", o + 1>> >>
Group3(o) == << <<"mawMax", o>>, <<"mawBefore", o + 1>>, <<"mawAfter", o + 2>> >>
Group4(o) == << <<"startEnergy", o>>, <<"maxEnergy", o + 1>> >>

\* the running offset after each optional sub-record
Offset1(fmt) == 2 + (IF Bit(fmt, 0) = 1 THEN 7 ELSE 0)
Offset2(fmt) == Offset1(fmt) + (IF Bit(fmt, 1) = 1 THEN 2 ELSE 0)
Offset3(fmt) == Offset2(fmt) + (IF Bit(fmt, 2) = 1 THEN 3 ELSE 0)
Offset4(fmt) == Offset3(fmt) + (IF Bit(fmt, 3) = 1 THEN 2 ELSE 0)

\* (mutant) the start and maximum energy are stored whatever the format says
FieldSteps_energy_always(fmt) ==
    (IF Bit(fmt, 0) = 1 THEN Group1 ELSE <<>>)
    \o (IF Bit(fmt, 1) = 1 THEN Group2(Offset1(fmt)) ELSE <<>>)
    \o (IF Bit(fmt, 2) = 1 THEN Group3(Offset2(fmt)) ELSE <<>>)
    \o Group4(Offset3(fmt))

FieldSteps(fmt) ==
    (IF Bit(fmt, 0) = 1 THEN Group1 ELSE <<>>)
    \o (IF Bit(fmt, 1) = 1 THEN Group2(Offset1(fmt)) ELSE <<>>)
    \o (IF Bit(fmt, 2) = 1 THEN Group3(Offset2(fmt)) ELSE <<>>)
    \o (IF Bit(fmt, 3) = 1 THEN Group4(Offset3(fmt)) ELSE <<>>)

\* number of leading steps whose word lies inside a packet of n words
RECURSIVE StepsDone(_, _, _)
StepsDone(steps, n, i) ==
    IF i > Len(steps) THEN Len(steps)
    ELSE IF steps[i][2] >= n THEN i - 1
    ELSE StepsDone(steps, n, i + 1)

Outcome(exc, fields) == [exc |-> exc, fields |-> fields]
Parsed(exc, fields, raw, avg, offset) ==
    [exc |-> exc, fields |-> fields, raw_length_32 |-> raw, avg_length_32 |-> avg,
     offset |-> offset]

\* "format_bits = (evt_data_32[0]) & 0x0000000F"
format_bits(pkt) == pkt[1].lo % 16

\* (mutant) the tags are checked, the sample counts are not: no waveform is
\* stored and the packet counts as consumed
LLAMAEventDecoder_parse_no_count_check(pkt) ==
    LET n == Len(pkt)
        fmt == IF n < 2 THEN 0 ELSE pkt[1].lo % 16
        o4 == Offset4(fmt)
        written == {"fch_id", "packet_id", "timestamp"} \cup {st[1] : st \in Range(FieldSteps(fmt))}
    IN
    IF n < 2 \/ o4 >= n THEN Parsed("IndexError", {}, 0, 0, 0)
    ELSE IF pkt[o4 + 1].hi \div 2 ^ 12 \notin {TagNoAvg, TagAvg}
        THEN Parsed("RuntimeError", written, 0, 0, o4)
    ELSE IF pkt[o4 + 1].hi \div 2 ^ 12 = TagAvg /\ pkt[o4 + 2].hi \div 2 ^ 12 # TagNoAvg
        THEN Parsed("RuntimeError", written, 0, 0, o4 + 1)
    ELSE Parsed(None, written, 0, 0, n)

\* Lines 146-214 of decode_packet, the part that depends on the packet alone:
\* the exception raised while the header, the optional sub-records and the
\* trailer are read (None: the sample-count check has passed), the fields of
\* the row written by then, the announced sample counts and the offset of
\* the sample data.  A packet shorter than its header fails before any write.
LLAMAEventDecoder_parse(pkt) ==
    LET n == Len(pkt)
        base == {"fch_id", "packet_id", "timestamp"}
    IN
    IF n < 2 THEN Parsed("IndexError", {}, 0, 0, 0)
    ELSE
    LET fmt == format_bits(pkt)
        steps == FieldSteps(fmt)
        done == StepsDone(steps, n, 1)
        written == base \cup {steps[i][1] : i \in 1..done}
        o4 == Offset4(fmt)
    IN
    IF done < Len(steps) THEN Parsed("IndexError", written, 0, 0, o4)
    ELSE IF o4 >= n THEN Parsed("IndexError", written, 0, 0, o4)
    ELSE
    LET w == pkt[o4 + 1]
        raw_length_32 == (w.hi % 2 ^ 10) * TwoP16 + w.lo   \* w & 0x03ffffff
        maw_test_flag == Bit(w.hi, 11)                     \* bit 27
        tag == w.hi \div 2 ^ 12                            \* w & 0xf0000000
        avg_data_coming == (tag = TagAvg)
        o5 == o4 + 1
    IN
    IF tag # TagNoAvg /\ tag # TagAvg THEN Parsed("RuntimeError", written, 0, 0, o4)
    ELSE IF avg_data_coming /\ o5 >= n THEN Parsed("IndexError", written, 0, 0, o5)
    ELSE
    LET w2 == IF avg_data_coming THEN pkt[o5 + 1] ELSE Word(0, 0)
        avg_length_32 == IF avg_data_coming THEN w2.lo ELSE 0   \* w2 & 0x0000ffff
        o6 == IF avg_data_coming THEN o5 + 1 ELSE o5
        raw_length_16 == 2 * raw_length_32
        avg_length_16 == 2 * avg_length_32
        expected_wf_length == 2 * n - 2 * o6
    IN
    IF avg_data_coming /\ w2.hi \div 2 ^ 12 # TagNoAvg
        THEN Parsed("RuntimeError", written, 0, 0, o5)
    ELSE IF maw_test_flag = 1 THEN Parsed("RuntimeError", written, 0, 0, o6)
    ELSE IF raw_length_16 + avg_length_16 # expected_wf_length
        THEN Parsed("RuntimeError", written, 0, 0, o6)
    ELSE Parsed(None, written, raw_length_32, avg_length_32, o6)

\* every packet presented in any specification, parsed once
PacketUniverse == Packets \cup WellFormedPackets \cup TrailerPackets \cup HeaderPackets
ParsedPackets == [pkt \in PacketUniverse |-> LLAMAEventDecoder_parse(pkt)]

\* (mutant) the offset is not advanced over the averaged samples
final_offset_raw_only(pkt) ==
    LET p == ParsedPackets[pkt] IN
    p.offset + (IF 2 * p.raw_length_32 > 0 THEN p.raw_length_32 ELSE 0)

\* the offset after the sample data of a packet that passed the count check
final_offset(pkt) ==
    LET p == ParsedPackets[pkt] IN
    p.offset + (IF 2 * p.raw_length_32 > 0 THEN p.raw_length_32 ELSE 0)
             + (IF 2 * p.avg_length_32 > 0 THEN p.avg_length_32 ELSE 0)

\* "((evt_data_32[0] & 0xffff0000) << 16) + evt_data_32[1]" as 16-bit limbs.
\* evt_data_32[0] is a numpy uint32 scalar: where numpy promotes the operation
\* with a Python int to int64 (numpy 1) the shifted high part is kept, where
\* the result stays uint32 (numpy 2) the shift pushes it out of the word.
timestamp(pkt, stays_uint32) ==
    <<IF stays_uint32 THEN 0 ELSE pkt[1].hi, pkt[2].hi, pkt[2].lo>>

\* (mutant) the row write is not checked against the table size
LLAMAEventDecoder_decode_unchecked(pkt, tbl, ii) ==
    LET p == ParsedPackets[pkt] IN
    IF p.exc # None THEN Outcome(p.exc, p.fields) ELSE Outcome(None, p.fields)

\* What decode_packet does with packet pkt once the buffer is found: the
\* exception it raises (None: it reaches "loc += 1") and the fields of row ii
\* it has written by then.  tbl is the buffer's lgdo, ii its loc; a write to
\* a missing table or to a row outside the table raises.
LLAMAEventDecoder_decode(pkt, tbl, ii) ==
    LET p == ParsedPackets[pkt]
        raw_length_16 == 2 * p.raw_length_32
        avg_length_16 == 2 * p.avg_length_32
        wf == IF raw_length_16 > 0 THEN {"waveform"} ELSE {}
        aux == IF avg_length_16 > 0 THEN {"auxwaveform"} ELSE {}
        offset == final_offset(pkt)
    IN
    IF Len(pkt) < 2 THEN Outcome("IndexError", {})
    ELSE IF ~tbl.has THEN Outcome("TypeError", {})
    ELSE IF ii >= tbl.size THEN Outcome("IndexError", {})
    ELSE IF p.exc # None THEN Outcome(p.exc, p.fields)
    ELSE IF raw_length_16 > 0 /\ raw_length_16 # tbl.wf_len
        THEN Outcome("ValueError", p.fields)
    ELSE IF avg_length_16 > 0 /\ avg_length_16 # tbl.aux_wf_len
        THEN Outcome("ValueError", p.fields \cup wf)
    ELSE IF offset # Len(pkt) THEN Outcome("RuntimeError", p.fields \cup wf \cup aux)
    ELSE Outcome(None, p.fields \cup wf \cup aux)

\* ------------------------------------------------------------------- state
ListNames == {"LLAMAEventDecoder", "FSPEventDecoder", "FSPStatusDecoder"}

VARIABLES
    rb_lib,            \* RawBufferLibrary: list name -> sequence of buffers (<<>>: none)
    lgdo,              \* RawBuffer.lgdo: the table, [has |-> FALSE, ...] for None
    key_list,          \* RawBuffer.key_list
    out_stream,        \* RawBuffer.out_stream
    proc_spec,         \* RawBuffer.proc_spec is not None
    fill_safety,       \* RawBuffer.fill_safety
    loc,               \* RawBuffer.loc
    keyed_dict,        \* RawBufferList.keyed_dict, per list
    skipped_channels,  \* LLAMAEventDecoder.skipped_channels (0: key absent)
    garbage_loc,       \* DataDecoder.garbage_table.loc
    ret,               \* outcome of the last call
    packet,            \* the packet of the last LLAMAEventDecoder.decode_packet call
    row,               \* the timestamp it stored (three 16-bit limbs, high first)
                       \* and the format selector it used
    wrote,             \* <<buffer, row, field>> written by the last call
    store_writes,      \* LH5Store.write calls issued by the last call
    old_loc,           \* history: the cursors before the last call
    decoded,           \* history: per buffer, the well-formed packets presented for
                       \* its keys, while it had a free row, since its last reset
    presented,         \* history: per decoder and key, the packets presented for
                       \* the key while no buffer was indexed for it
    expand,            \* the expand_rblist_dict call in progress: its position,
                       \* the config dictionary, the loop variables and kw_dict
                       \* (history: the config passed in, and the key_list as
                       \* the while loop found it)
    fcio_stream_library,   \* stream id -> reader instance (0: no entry); instances
                           \* are numbered in the order FCIO() made them
    fcio_returned,         \* (history) <<streamid, instance>> of each get_fcio_stream call
    orca,                  \* the ORCA FlashCam sessions: their headers, their four
                           \* ORFCIO decoders and buffers, the state of the FCIO
                           \* readers, and (history) the nested calls of the last
                           \* decode_packet
    llama,                 \* LLAMAEventDecoder: channel_configs, decoded_values and
                           \* what the last schema request returned
    mk,                    \* the last DataDecoder.make_lgdo call
    ls,                    \* LLAMAStreamer and its LLAMAHeaderDecoder
    cells,                 \* (history) for the LLAMA tables whose rows are followed:
                           \* per row, the fields that hold a value of the packet
                           \* accepted into the row (own) and those that hold a
                           \* value of any other origin (other)
    ragged,                \* for the FSP event tables whose ragged columns are
                           \* followed: cumulative_length and flattened_data of
                           \* obs_ct_trace_idx and obs_ct_max (each slot holds the
                           \* number of the call that wrote it, 0: none), and
                           \* (history) the calls counted and the rows accepted
                           \* since the cursor was last 0
    threads                \* for the sessions whose FSP events are decoded by two
                           \* threads: each thread's position in decode_packet, its
                           \* local variables and the events it still has, and
                           \* (history) the rows decoded into each buffer and the
                           \* events stored in each row

vars == <<rb_lib, lgdo, key_list, out_stream, proc_spec, fill_safety, loc, keyed_dict,
          skipped_channels, garbage_loc, ret, packet, row, wrote, store_writes, old_loc,
          decoded, presented, expand, fcio_stream_library, fcio_returned, orca, llama, mk, ls,
          cells, ragged, threads>>
streams == <<fcio_stream_library, fcio_returned>>
\* the ORCA sessions
late == <<orca, llama, mk, ls, cells, ragged, threads>>
\* of these, the state outside ORCA
aside == <<llama, mk, ls, cells, ragged, threads>>
\* the state outside the buffers and decoders
setup == <<expand, streams, late>>
\* the buffers, the decoders and the last call
core == <<rb_lib, lgdo, key_list, out_stream, proc_spec, fill_safety, loc, keyed_dict,
          skipped_channels, garbage_loc, ret, packet, row, wrote, store_writes, old_loc,
          decoded, presented>>
config == <<rb_lib, lgdo, key_list, out_stream, proc_spec, fill_safety>>

StreamIds == 0..MaxStreamId
\* "fcio_stream_library = dict()"
NoStreams ==
    /\ fcio_stream_library = [s \in StreamIds |-> 0]
    /\ fcio_returned = <<>>

\* ORCA FlashCam: the sessions of a process, the four ORFCIO decoders each
\* session constructs, and the FCIO() instances
Sessions == 1..2
DecNames ==
    {"ORFCIOConfigDecoder", "ORFCIOStatusDecoder", "ORFCIOEventHeaderDecoder",
     "ORFCIOEventDecoder"}
Instances == 1..(MaxStreamId + 1)
\* a reader as FCIO() makes it: not open, no stream configuration read
NoReader == [open |-> FALSE, streamid |-> -1, session |-> 0]
NoBuffer == [declared |-> FALSE, key_list |-> <<>>, loc |-> 0, size |-> 0, fill_safety |-> 1]
\* a decoder after __init__(header=None).  key_list holds the two lists of
\* the dict in insertion order (primary keys, FSP keys); decoded_values holds
\* the stream ids that have a schema (<<0>>: the one schema of a decoder
\* without per-stream schemas).  Only the event-header and event decoders
\* assign fsp_decoder, only the event-header decoder leaves
\* max_rows_in_packet unassigned (-1).
NewDecoder(n) ==
    [header_set |-> FALSE, ready |-> FALSE,
     key_list |-> << <<>>, <<>> >>,
     fsp_decoder |-> IF n \in {"ORFCIOEventHeaderDecoder", "ORFCIOEventDecoder"}
                     THEN "None" ELSE "unset",
     max_rows_in_packet |-> IF n = "ORFCIOEventHeaderDecoder" THEN -1 ELSE 0,
     decoded_values |-> <<>>]
NoSession ==
    [made |-> FALSE, header |-> <<>>,
     dec |-> [n \in DecNames |-> NewDecoder(n)],
     buf |-> [n \in DecNames |-> <<NoBuffer, NoBuffer>>]]
NoLast ==
    [session |-> 0, dec |-> "", nested |-> <<>>, rows |-> <<0, 0>>, streamid |-> -1,
     inst |-> 0, dispatched |-> 0, before |-> <<NoBuffer, NoBuffer>>, recs |-> <<>>,
     overflow |-> FALSE]
NoOrca ==
    [readers |-> [i \in Instances |-> NoReader],
     sess |-> [x \in Sessions |-> NoSession],
     last |-> NoLast]
\* LLAMAEventDecoder after __init__: channel_configs is None, decoded_values
\* is {}; asked: whether the last request came before set_channel_configs /
\* set_header; kll and schema: what the last request returned
NoLlama ==
    [configured |-> FALSE, channel_configs |-> <<>>, decoded_values |-> <<>>,
     asked |-> FALSE, early |-> {}, kll |-> <<>>, schema |-> <<>>]
\* a decoder and (history) its make_lgdo calls: the schema before the last
\* call, the outcome of the last and of the first call
NoMk ==
    [has |-> FALSE, decoded_values |-> <<>>, size |-> 0, calls |-> 0,
     before |-> <<>>, exc |-> None, table |-> <<>>, first |-> <<>>]
\* ------------------------------------------------ LLAMA: the file header
\* A llamaDAQ file: the eight 16-bit words of its 16-byte header and, after
\* it, one channel configuration of 88 bytes per entry of channels, each
\* with its FADC index and channel index.
MagicLo == 16716         \* 0x414c
MagicHi == 18802         \* 0x4972
EconfLength == 88
HeaderBytes == 16
LlamaFile(w, channels) == [header |-> w, channels |-> channels]

\* np.fromstring(header, dtype=np.uint16)[i] and (dtype=np.uint32)[i], the
\* bytes little-endian
evt_data_16(file, i) == file.header[i + 1]
evt_data_32(file, i) == file.header[2 * i + 1] + 65536 * file.header[2 * i + 2]

\* LLAMAStreamer after __init__ and its LLAMAHeaderDecoder; was_open and
\* file: (history) in_stream before the last open_stream, and its file
NoLs ==
    [in_stream |-> FALSE, n_bytes_read |-> 0, opens |-> 0,
     version_major |-> -1, version_minor |-> -1, version_patch |-> -1,
     length_econf |-> -1, number_chOpen |-> -1,
     has_configs |-> FALSE, channel_configs |-> {},
     was_open |-> FALSE, file |-> LlamaFile(<<>>, <<>>)]
\* no table is followed; the tables of all buffers followed from their
\* allocation, when no row holds a decoded value
NoCells == <<>>
NoCell == [own |-> {}, other |-> {}]
FreshCells == [b \in Bufs |-> [i \in 0..(MaxCap - 1) |-> NoCell]]
\* no ragged column is followed
NoRagged == <<>>
\* no thread is running
NoThreads == <<>>
NoAside ==
    /\ llama = NoLlama /\ mk = NoMk /\ ls = NoLs
    /\ cells = NoCells /\ ragged = NoRagged /\ threads = NoThreads

NoLate == orca = NoOrca /\ NoAside

NoRow == [written |-> FALSE, timestamp |-> <<0, 0, 0>>, format_bits |-> 0]
NoTable == [has |-> FALSE, size |-> 0, wf_len |-> 0, aux_wf_len |-> 0]
Table(n) == [has |-> TRUE, size |-> n, wf_len |-> sample_length, aux_wf_len |-> avg_sample_length]
NoDict == [built |-> FALSE, map |-> [k \in Keys |-> 0]]
\* a call's outcome: the operation, the key and the buffers it was given, the
\* buffer the key was looked up to (0: none), and what it returned or raised
Ret(op, key, bufs, rb, kind, val) ==
    [op |-> op, key |-> key, bufs |-> bufs, rb |-> rb, kind |-> kind, val |-> val]
Str(b) == IF b THEN "True" ELSE "False"

\* the key each FSP decoder looks up: key_list[0], set by set_fcio_stream
FSPEventDecoder_key_list == <<0>>
FSPStatusDecoder_key_list == <<0>>

\* ------------------------------------------------------------- RawBuffer
\* (mutant) a buffer without a table counts as one row, like an lgdo without __len__
len_one(tbl) == IF ~tbl.has THEN 1 ELSE tbl.size

\* RawBuffer.__len__
len(tbl) == IF ~tbl.has THEN 0 ELSE tbl.size

\* (mutant) the margin compared with <= instead of <
is_full_le(tbl, l, fs) == (len(tbl) - l) <= fs

\* (mutant) fill_safety ignored: full only when no row is left
is_full_no_margin(tbl, l, fs) == (len(tbl) - l) < 1

\* RawBuffer.is_full, of a buffer with table tbl, cursor l and margin fs
is_full(tbl, l, fs) == (len(tbl) - l) < fs

IsFull(b) == is_full(lgdo[b], loc[b], fill_safety[b])

\* ---------------------------------------------------------- RawBufferList
\* (mutant) every key of the list is indexed to the list's first buffer
BuildKeyedDict_first(bufs, i, d) ==
    [k \in Keys |-> IF \E j \in DOMAIN bufs : k \in Range(key_list[bufs[j]])
                    THEN bufs[1] ELSE 0]

\* the dictionary get_keyed_dict builds: buffers in list order, a later
\* buffer replaces an earlier one for the same key (0: key absent)
RECURSIVE BuildKeyedDict(_, _, _)
BuildKeyedDict(bufs, i, d) ==
    IF i > Len(bufs) THEN d
    ELSE BuildKeyedDict(bufs, i + 1,
            [k \in Keys |-> IF k \in Range(key_list[bufs[i]]) THEN bufs[i] ELSE d[k]])

\* (mutant) the dictionary is rebuilt on every call
get_keyed_dict_rebuild(name) == BuildKeyedDict(rb_lib[name], 1, [k \in Keys |-> 0])

\* RawBufferList.get_keyed_dict: the cached dictionary, built on first use
get_keyed_dict(name) ==
    IF keyed_dict[name].built THEN keyed_dict[name].map
    ELSE BuildKeyedDict(rb_lib[name], 1, [k \in Keys |-> 0])

Cache(name) == [keyed_dict EXCEPT ![name] = [built |-> TRUE, map |-> get_keyed_dict(name)]]

\* buffers of a list whose key_list names key k, whatever the index says
RoutedTo(name, k) == {b \in Range(rb_lib[name]) : k \in Range(key_list[b])}

\* no expand_rblist_dict call in progress
NoKw == [has_key |-> FALSE, key |-> [t |-> "key", a |-> 0, b |-> 0],
         has_name |-> FALSE, name |-> <<>>]
NoExpand ==
    [pc |-> "idle", input |-> <<>>, config |-> <<>>, buffer_names |-> <<>>,
     i |-> 0, key_list0 |-> <<>>, kw_dict |-> NoKw, exc |-> None]

\* -------------------------------------------------------------------- Init
\* the buffers' out_stream's and the buffers left without a table
BufCfgs ==
    { [out |-> << <<"f", ":", "g">>, <<"f">> >>, notable |-> {}],
      [out |-> << <<":", "g">>, <<"f", ":">> >>, notable |-> {}],
      [out |-> << <<>>, <<"f", ":", "g">> >>, notable |-> {}],
      [out |-> << <<"f", ":", "g">>, <<"f">> >>, notable |-> {2}] }

InitBuffers ==
    /\ \E session \in {"llama", "fcio"} :
        /\ rb_lib = IF session = "llama"
                    THEN [n \in ListNames |-> IF n = "LLAMAEventDecoder" THEN <<1, 2>> ELSE <<>>]
                    ELSE [n \in ListNames |-> IF n = "FSPEventDecoder" THEN <<1>>
                                              ELSE IF n = "FSPStatusDecoder" THEN <<2>>
                                              ELSE <<>>]
        /\ IF session = "llama"
           THEN \E k1 \in {<<0>>, <<0, 1>>}, k2 \in {<<1>>, <<2>>} :
                    key_list = <<k1, k2>>
           ELSE \E k1 \in {<<0>>, <<1>>}, k2 \in {<<0>>, <<1>>} :
                    key_list = <<k1, k2>>
    /\ \E cfg \in BufCfgs :
        /\ lgdo = [b \in Bufs |-> IF b \in cfg.notable THEN NoTable ELSE Table(MaxCap)]
        /\ out_stream = cfg.out
    /\ \E s \in 1..MaxSafety : fill_safety = [b \in Bufs |-> s]
    /\ proc_spec = <<TRUE, FALSE>>
    /\ loc = [b \in Bufs |-> 0]
    /\ keyed_dict = [n \in ListNames |-> NoDict]
    /\ skipped_channels = [k \in Keys |-> 0]
    /\ garbage_loc = 0
    /\ ret = Ret("__init__", -1, <<>>, 0, "return", "None")
    /\ old_loc = [b \in Bufs |-> 0]
    /\ packet = <<>>
    /\ row = NoRow
    /\ wrote = {}
    /\ store_writes = <<>>
    /\ decoded = [b \in Bufs |-> 0]
    /\ presented = [n \in ListNames |-> [k \in Keys |-> 0]]
    /\ expand = NoExpand
    /\ NoStreams
Init == InitBuffers /\ NoLate

\* ----------------------------------------------------------------- decoders
\* history of a packet presented to the decoder of list name for key k (the
\* count saturates one above the table size, which no cursor reaches)
Count(name, k, wellformed) ==
    decoded' = [b \in Bufs |->
                  IF /\ wellformed /\ b \in RoutedTo(name, k)
                     /\ lgdo[b].has /\ loc[b] < lgdo[b].size
                     /\ decoded[b] <= lgdo[b].size
                  THEN decoded[b] + 1 ELSE decoded[b]]

\* row ii of a table after decode_packet wrote the fields written into
\* it: an accepted packet makes them the row's own and leaves whatever the
\* other fields held; a rejected packet leaves its values in a row that is
\* not (or no longer) below the cursor
RowAfter(c, written, accepted) ==
    IF accepted THEN [own |-> written, other |-> (c.own \cup c.other) \ written]
    ELSE [own |-> {}, other |-> c.own \cup c.other \cup written]

\* LLAMAEventDecoder.decode_packet(packet, rbl.get_keyed_dict(), packet_id, fch_id)
\* for a packet of P and a key of K
LLAMA_decode_packet(P, K) ==
    /\ rb_lib["LLAMAEventDecoder"] # <<>>
    /\ \E pkt \in P, fch_id \in K, stays_uint32 \in BOOLEAN :
        LET evt_rbkd == get_keyed_dict("LLAMAEventDecoder")
            b == evt_rbkd[fch_id]
            op == "LLAMAEventDecoder.decode_packet"
        IN
        /\ keyed_dict' = Cache("LLAMAEventDecoder")
        /\ packet' = pkt
        /\ Count("LLAMAEventDecoder", fch_id, pkt \in FormatPackets)
        /\ IF b = 0
           THEN /\ skipped_channels[fch_id] < MaxSkip
                /\ skipped_channels' = [skipped_channels EXCEPT ![fch_id] = @ + 1]
                /\ presented' = [presented EXCEPT !["LLAMAEventDecoder"][fch_id] = @ + 1]
                /\ ret' = Ret(op, fch_id, <<>>, 0, "return", "False")
                /\ wrote' = {}
                /\ row' = NoRow
                /\ loc' = loc
                /\ cells' = cells
           ELSE LET out == LLAMAEventDecoder_decode(pkt, lgdo[b], loc[b]) IN
                /\ wrote' = {<<b, loc[b], f>> : f \in out.fields}
                /\ cells' = IF out.fields = {} \/ b \notin DOMAIN cells THEN cells
                            ELSE [cells EXCEPT ![b][loc[b]] =
                                    RowAfter(@, out.fields, out.exc = None)]
                /\ row' = IF "timestamp" \in out.fields
                          THEN [written |-> TRUE, timestamp |-> timestamp(pkt, stays_uint32),
                                format_bits |-> format_bits(pkt)]
                          ELSE NoRow
                /\ UNCHANGED <<skipped_channels, presented>>
                /\ IF out.exc = None
                   THEN /\ loc' = [loc EXCEPT ![b] = @ + 1]
                        /\ ret' = Ret(op, fch_id, <<b>>, b, "return",
                                      Str(is_full(lgdo[b], loc[b] + 1, fill_safety[b])))
                   ELSE /\ ret' = Ret(op, fch_id, <<b>>, b, "raise", out.exc)
                        /\ loc' = loc
    /\ old_loc' = loc
    /\ store_writes' = <<>>
    /\ UNCHANGED <<expand, streams, orca, llama, mk, ls, ragged, threads, config,
                   garbage_loc>>

LLAMAEventDecoder_decode_packet == LLAMA_decode_packet(Packets, Keys)

fsp_status_fields ==
    {"packet_id", "start_time", "log_time", "dt_logtime", "runtime", "n_read_events",
     "n_written_events", "n_discarded_events", "dt_n_read_events", "dt_n_written_events",
     "dt_n_discarded_events", "dt", "dt_rate_read_events", "dt_rate_write_events",
     "dt_rate_discard_events", "avg_rate_read_events", "avg_rate_write_events",
     "avg_rate_discard_events"}

fsp_event_fields ==
    {"packet_id", "is_written", "is_extended", "is_consecutive", "is_hwm_prescaled",
     "is_hwm_multiplicity", "is_wps_sum", "is_wps_coincident_sum", "is_wps_prescaled",
     "is_ct_multiplicity", "obs_wps_sum_value", "obs_wps_sum_offset",
     "obs_wps_sum_multiplicity", "obs_wps_max_peak_value", "obs_wps_max_peak_offset",
     "obs_hwm_multiplicity", "obs_hwm_max_value", "obs_hwm_min_value",
     "obs_evt_nconsecutive", "obs_ct_multiplicity", "obs_ct_trace_idx", "obs_ct_max"}

\* the row write shared by the FSP decoders: every field of row loc, then loc += 1
FSP_write_row(op, key, b, fields) ==
    IF ~lgdo[b].has
    THEN /\ ret' = Ret(op, key, <<b>>, b, "raise", "TypeError")
         /\ wrote' = {}
         /\ loc' = loc
    ELSE IF loc[b] >= lgdo[b].size
    THEN /\ ret' = Ret(op, key, <<b>>, b, "raise", "IndexError")
         /\ wrote' = {}
         /\ loc' = loc
    ELSE /\ wrote' = {<<b, loc[b], f>> : f \in fields}
         /\ loc' = [loc EXCEPT ![b] = @ + 1]
         /\ ret' = Ret(op, key, <<b>>, b, "return",
                       Str(is_full(lgdo[b], loc[b] + 1, fill_safety[b])))

\* "length_guess": Limits.MaxChannels, which bounds the multiplicity of an event
MaxChannels == MaxMult
RaggedFields == {"obs_ct_trace_idx", "obs_ct_max"}

\* the ragged columns make_lgdo allocates for a table of size rows:
\* VectorOfVectors(shape_guess=(size, length_guess))
NewVoV(size) ==
    [cumulative_length |-> [i \in 1..size |-> 0],
     flattened_data |-> [j \in 1..(size * MaxChannels) |-> 0]]
FreshRagged(size) ==
    [calls |-> 0, rows |-> <<>>,
     obs_ct_trace_idx |-> NewVoV(size), obs_ct_max |-> NewVoV(size)]

\* (mutant) the row is appended after the offset of row loc - 1 of the table
\* also when loc is 0
RaggedAfter_no_restart(r, at, lens) ==
    LET n == r.calls + 1
        size == Len(r.obs_ct_trace_idx.cumulative_length)
        start == r.obs_ct_trace_idx.cumulative_length[IF at = 0 THEN size ELSE at]
        end == start + lens
        put(v) == [cumulative_length |-> [v.cumulative_length EXCEPT ![at + 1] = end],
                   flattened_data |-> [j \in DOMAIN v.flattened_data |->
                        IF start < j /\ j <= end THEN n ELSE v.flattened_data[j]]]
    IN
    [calls |-> n,
     rows |-> (IF at = 0 THEN <<>> ELSE r.rows) \o <<[call |-> n, lens |-> lens]>>,
     obs_ct_trace_idx |-> put(r.obs_ct_trace_idx), obs_ct_max |-> put(r.obs_ct_max)]

\* lines 437-447 of FSPEventDecoder.decode_packet at row loc = at, call
\* number n: lens values stored from "start" on in both flattened_data
\* arrays, and "end" stored as cumulative_length[loc] of both columns
RaggedAfter(r, at, lens) ==
    LET n == r.calls + 1
        start == IF at = 0 THEN 0 ELSE r.obs_ct_trace_idx.cumulative_length[at]
        end == start + lens
        put(v) == [cumulative_length |-> [v.cumulative_length EXCEPT ![at + 1] = end],
                   flattened_data |-> [j \in DOMAIN v.flattened_data |->
                        IF start < j /\ j <= end THEN n ELSE v.flattened_data[j]]]
    IN
    [calls |-> n,
     rows |-> (IF at = 0 THEN <<>> ELSE r.rows) \o <<[call |-> n, lens |-> lens]>>,
     obs_ct_trace_idx |-> put(r.obs_ct_trace_idx), obs_ct_max |-> put(r.obs_ct_max)]

\* FSPEventDecoder.decode_packet(fcio, rbl.get_keyed_dict(), packet_id) for
\* an event of multiplicity lens
FSPEventDecoder_decode_packet ==
    /\ rb_lib["FSPEventDecoder"] # <<>>
    /\ \E lens \in 0..MaxMult :
       LET fsp_evt_rbkd == get_keyed_dict("FSPEventDecoder")
           key == FSPEventDecoder_key_list[1]
           b == fsp_evt_rbkd[key]
           op == "FSPEventDecoder.decode_packet"
       IN
       /\ b \in DOMAIN ragged => ragged[b].calls < MaxEvents
       /\ ragged' = IF b \in DOMAIN ragged /\ lgdo[b].has /\ loc[b] < lgdo[b].size
                    THEN [ragged EXCEPT ![b] = RaggedAfter(@, loc[b], lens)]
                    ELSE ragged
       /\ keyed_dict' = Cache("FSPEventDecoder")
       /\ Count("FSPEventDecoder", key, TRUE)
       /\ IF b = 0
          THEN /\ presented["FSPEventDecoder"][key] < MaxSkip
               /\ presented' = [presented EXCEPT !["FSPEventDecoder"][key] = @ + 1]
               /\ ret' = Ret(op, key, <<>>, 0, "return", "False")
               /\ wrote' = {}
               /\ loc' = loc
          ELSE /\ FSP_write_row(op, key, b, fsp_event_fields)
               /\ UNCHANGED presented
    /\ old_loc' = loc
    /\ packet' = <<>>
    /\ row' = NoRow
    /\ store_writes' = <<>>
    /\ UNCHANGED <<expand, streams, orca, llama, mk, ls, cells, threads, config,
                   skipped_channels, garbage_loc>>

\* FSPStatusDecoder.decode_packet(fcio, rbl.get_keyed_dict(), packet_id)
FSPStatusDecoder_decode_packet ==
    /\ rb_lib["FSPStatusDecoder"] # <<>>
    /\ LET fsp_status_rbkd == get_keyed_dict("FSPStatusDecoder")
           key == FSPStatusDecoder_key_list[1]
           b == fsp_status_rbkd[key]
           op == "FSPStatusDecoder.decode_packet"
       IN
       /\ keyed_dict' = Cache("FSPStatusDecoder")
       /\ Count("FSPStatusDecoder", key, TRUE)
       /\ IF b = 0
          THEN /\ presented["FSPStatusDecoder"][key] < MaxSkip
               /\ presented' = [presented EXCEPT !["FSPStatusDecoder"][key] = @ + 1]
               /\ ret' = Ret(op, key, <<>>, 0, "raise", "KeyError")
               /\ wrote' = {}
               /\ loc' = loc
          ELSE /\ FSP_write_row(op, key, b, fsp_status_fields)
               /\ UNCHANGED presented
    /\ old_loc' = loc
    /\ packet' = <<>>
    /\ row' = NoRow
    /\ store_writes' = <<>>
    /\ UNCHANGED <<setup, config, skipped_channels, garbage_loc>>

\* ------------------------------------------------------------------ flushes
\* (mutant) every buffer of S is reset, full or not
ClearFull_all(S) == [b \in Bufs |-> IF b \in S THEN 0 ELSE loc[b]]

\* the cursors after "if rb.is_full(): rb.loc = 0" on each buffer of S
ClearFull(S) == [b \in Bufs |-> IF b \in S /\ IsFull(b) THEN 0 ELSE loc[b]]

Reset(newloc) ==
    /\ loc' = newloc
    /\ old_loc' = loc
    /\ decoded' = [b \in Bufs |-> IF newloc[b] = 0 /\ loc[b] # 0 THEN 0 ELSE decoded[b]]

\* RawBufferList.clear_full
RawBufferList_clear_full ==
    /\ \E name \in ListNames :
        /\ rb_lib[name] # <<>>
        /\ Reset(ClearFull(Range(rb_lib[name])))
        /\ ret' = Ret("RawBufferList.clear_full", -1, rb_lib[name], 0, "return", "None")
    /\ packet' = <<>>
    /\ row' = NoRow
    /\ wrote' = {}
    /\ store_writes' = <<>>
    /\ UNCHANGED <<setup, config, keyed_dict, skipped_channels, garbage_loc, presented>>

\* RawBufferLibrary.clear_full: clear_full of every list
RawBufferLibrary_clear_full ==
    /\ Reset(ClearFull(UNION {Range(rb_lib[name]) : name \in ListNames}))
    /\ ret' = Ret("RawBufferLibrary.clear_full", -1, <<>>, 0, "return", "None")
    /\ packet' = <<>>
    /\ row' = NoRow
    /\ wrote' = {}
    /\ store_writes' = <<>>
    /\ UNCHANGED <<setup, config, keyed_dict, skipped_channels, garbage_loc, presented>>

\* (mutant) the out_stream is not split at the colon
filename_whole(s) == s

\* the file part and the group part of an out_stream
filename(s) == IF find(s) = -1 THEN s ELSE SubSeq(s, 1, find(s))
group(s) ==
    IF find(s) = -1 THEN <<"/">>
    ELSE IF Len(SubSeq(s, find(s) + 2, Len(s))) = 0 THEN <<"/">>
    ELSE SubSeq(s, find(s) + 2, Len(s))

\* does write_to_lh5_and_clear skip the buffer ("no data to write")?
NoData(b) == ~lgdo[b].has \/ loc[b] = 0

\* the LH5Store.write calls for raw_buffers bufs[i..], in order
RECURSIVE StoreWrites(_, _)
StoreWrites(bufs, i) ==
    IF i > Len(bufs) THEN <<>>
    ELSE LET b == bufs[i] IN
         (IF ~NoData(b) /\ filename(out_stream[b]) # <<>>
          THEN << [out_name |-> b, filename |-> filename(out_stream[b]),
                   group |-> group(out_stream[b]), n_rows |-> loc[b],
                   processed |-> proc_spec[b]] >>
          ELSE <<>>)
         \o StoreWrites(bufs, i + 1)

\* write_to_lh5_and_clear(raw_buffers, lh5_store)
write_to_lh5_and_clear ==
    /\ \E raw_buffers \in {<<1>>, <<2>>, <<1, 2>>} :
        /\ store_writes' = StoreWrites(raw_buffers, 1)
        /\ Reset([b \in Bufs |-> IF b \in Range(raw_buffers) /\ ~NoData(b) THEN 0 ELSE loc[b]])
        /\ ret' = Ret("write_to_lh5_and_clear", -1, raw_buffers, 0, "return", "None")
    /\ packet' = <<>>
    /\ row' = NoRow
    /\ wrote' = {}
    /\ UNCHANGED <<setup, config, keyed_dict, skipped_channels, garbage_loc, presented>>

\* --------------------------------------------------------------- garbage sink
\* DataDecoder.put_in_garbage: the table built by __init__ has the column
\* "garbage_code"; the lookup of "garbage_codes" raises KeyError before push_row
garbage_fields == {"packets", "packet_id", "garbage_code"}
put_in_garbage ==
    /\ ret' = IF "garbage_codes" \in garbage_fields
              THEN Ret("put_in_garbage", -1, <<>>, 0, "return", "None")
              ELSE Ret("put_in_garbage", -1, <<>>, 0, "raise", "KeyError")
    /\ garbage_loc' = IF "garbage_codes" \in garbage_fields THEN garbage_loc + 1 ELSE garbage_loc
    /\ garbage_loc < MaxSkip
    /\ packet' = <<>>
    /\ row' = NoRow
    /\ wrote' = {}
    /\ store_writes' = <<>>
    /\ old_loc' = loc
    /\ UNCHANGED <<setup, config, loc, keyed_dict, skipped_channels, decoded, presented>>

\* ---------------------------------------------------------------------- Next
Next ==
    \/ LLAMAEventDecoder_decode_packet
    \/ FSPEventDecoder_decode_packet
    \/ FSPStatusDecoder_decode_packet
    \/ RawBufferList_clear_full
    \/ RawBufferLibrary_clear_full
    \/ write_to_lh5_and_clear
    \/ put_in_garbage

Spec == Init /\ [][Next]_vars

\* ------------------------------------------------- the LLAMA decoder alone
\* One LLAMA session - keys 0 and 1 routed to one buffer, key 2 to the other -
\* fed with the packets of TrailerPackets.

InitLLAMA ==
    /\ Init
    /\ rb_lib["LLAMAEventDecoder"] # <<>>
    /\ key_list = << <<0, 1>>, <<2>> >>
    /\ \A b \in Bufs : lgdo[b].has
    /\ out_stream = << <<"f", ":", "g">>, <<"f">> >>
    /\ \A b \in Bufs : fill_safety[b] = 1

\* one key of each buffer
TrailerKeys == {0, 2}
LLAMAEventDecoder_decode_any_packet == LLAMA_decode_packet(TrailerPackets, TrailerKeys)

NextLLAMA ==
    \/ LLAMAEventDecoder_decode_any_packet
    \/ RawBufferLibrary_clear_full

SpecLLAMA == InitLLAMA /\ [][NextLLAMA]_vars

\* The same decoder fed with the packets of all 16 data formats and with the
\* header words at the ends of their ranges, all for one key.
FormatKeys == {0}
LLAMAEventDecoder_decode_format_packet == LLAMA_decode_packet(FormatPackets, FormatKeys)

NextFormats ==
    \/ LLAMAEventDecoder_decode_format_packet
    \/ RawBufferLibrary_clear_full

SpecFormats == InitLLAMA /\ [][NextFormats]_vars

\* The same session with the rows of the tables followed, fed with accepted
\* and rejected packets for one key.
InitRows ==
    /\ InitBuffers
    /\ rb_lib["LLAMAEventDecoder"] # <<>>
    /\ key_list = << <<0, 1>>, <<2>> >>
    /\ \A b \in Bufs : lgdo[b].has
    /\ out_stream = << <<"f", ":", "g">>, <<"f">> >>
    /\ \A b \in Bufs : fill_safety[b] = 1
    /\ orca = NoOrca /\ llama = NoLlama /\ mk = NoMk /\ ls = NoLs
    /\ cells = FreshCells /\ ragged = NoRagged /\ threads = NoThreads
\* a packet without and one with every optional sub-record and averaged
\* samples, and the latter with a bad second trailer tag
RowPackets ==
    { MakePacket(0, TagNoAvg, 0, 1, TagNoAvg, 0, 1),
      MakePacket(15, TagAvg, 0, 1, TagNoAvg, 1, 2),
      MakePacket(15, TagAvg, 0, 1, 1, 1, 2) }
LLAMAEventDecoder_decode_row_packet == LLAMA_decode_packet(RowPackets, FormatKeys)

NextRows ==
    \/ LLAMAEventDecoder_decode_row_packet
    \/ RawBufferLibrary_clear_full

SpecRows == InitRows /\ [][NextRows]_vars

\* ------------------------------------------- the FSP event decoder alone
\* One FlashCam session whose FSP event buffer holds a table, with its two
\* ragged columns followed from their allocation.
InitRagged ==
    /\ InitBuffers
    /\ rb_lib["FSPEventDecoder"] = <<1>>
    /\ key_list[1] = FSPEventDecoder_key_list
    /\ lgdo[1].has
    /\ orca = NoOrca /\ llama = NoLlama /\ mk = NoMk /\ ls = NoLs
    /\ cells = NoCells
    /\ ragged = [b \in {1} |-> FreshRagged(lgdo[1].size)]
    /\ threads = NoThreads

NextRagged ==
    \/ FSPEventDecoder_decode_packet
    \/ RawBufferLibrary_clear_full

SpecRagged == InitRagged /\ [][NextRagged]_vars

\* --------------------------------------- two streams decoded by two threads
\* Each thread presents the FSP events of its own stream id, in order, to
\* FSPEventDecoder.decode_packet with the reader of that stream; the decoder,
\* the keyed dictionary and the buffers are those of the session. The
\* interpreter may switch threads between any two statements of
\* decode_packet, and (in builds that switch between bytecodes or run the
\* threads in parallel) between the load and the store of "loc += 1".
Threads == 1..2
ThreadPackets == 2   \* FSP events of each stream

FreshThreads ==
    [pc |-> [t \in Threads |-> "idle"],
     left |-> [t \in Threads |-> ThreadPackets],
     fsp_evt_rb |-> [t \in Threads |-> 0],
     loc |-> [t \in Threads |-> 0],
     tmp |-> [t \in Threads |-> 0],
     rows |-> [b \in Bufs |-> 0],
     stored |-> [b \in Bufs |-> [i \in 0..(MaxCap - 1) |-> {}]]]

InitThreads ==
    /\ InitBuffers
    /\ rb_lib["FSPEventDecoder"] # <<>>
    /\ orca = NoOrca /\ llama = NoLlama /\ mk = NoMk /\ ls = NoLs
    /\ cells = NoCells /\ ragged = NoRagged
    /\ threads = FreshThreads

ThreadFrame ==
    UNCHANGED <<rb_lib, lgdo, key_list, out_stream, proc_spec, fill_safety, skipped_channels,
                garbage_loc, packet, row, store_writes, old_loc, decoded, presented,
                expand, streams, orca, llama, mk, ls, cells, ragged, config>>

\* the event thread t is decoding: its stream id and its number in the stream
ThreadEvent(t) == <<t, ThreadPackets - threads.left[t] + 1>>

\* decode_packet leaves with outcome r: the thread turns to its next event
ThreadDone(th, t) ==
    [th EXCEPT !.pc[t] = "idle", !.left[t] = @ - 1]

\* lines 401-407: the buffer of key_list[0] looked up in the keyed
\* dictionary (return False when absent), tbl and loc read from it
Thread_get_buffer(t) ==
    LET fsp_evt_rbkd == get_keyed_dict("FSPEventDecoder")
        key == FSPEventDecoder_key_list[1]
        b == fsp_evt_rbkd[key]
    IN
    /\ threads.pc[t] = "idle" /\ threads.left[t] > 0
    /\ keyed_dict' = Cache("FSPEventDecoder")
    /\ IF b = 0
       THEN /\ threads' = ThreadDone(threads, t)
            /\ ret' = Ret("FSPEventDecoder.decode_packet", key, <<>>, 0, "return", "False")
       ELSE /\ threads' = [threads EXCEPT !.pc[t] = "write", !.fsp_evt_rb[t] = b,
                                          !.loc[t] = loc[b]]
            /\ ret' = ret
    /\ UNCHANGED <<loc, wrote>>
    /\ ThreadFrame

\* lines 409-447: every field of row loc of the table stored
Thread_write_row(t) ==
    LET b == threads.fsp_evt_rb[t]
        at == threads.loc[t]
        key == FSPEventDecoder_key_list[1]
        op == "FSPEventDecoder.decode_packet"
    IN
    /\ threads.pc[t] = "write"
    /\ IF ~lgdo[b].has
       THEN /\ threads' = ThreadDone(threads, t)
            /\ ret' = Ret(op, key, <<b>>, b, "raise", "TypeError")
            /\ wrote' = {}
       ELSE IF at >= lgdo[b].size
       THEN /\ threads' = ThreadDone(threads, t)
            /\ ret' = Ret(op, key, <<b>>, b, "raise", "IndexError")
            /\ wrote' = {}
       ELSE /\ threads' = [threads EXCEPT !.pc[t] = "load",
                                          !.stored[b][at] = @ \cup {ThreadEvent(t)}]
            /\ wrote' = {<<b, at, f>> : f \in fsp_event_fields}
            /\ ret' = ret
    /\ UNCHANGED <<loc, keyed_dict>>
    /\ ThreadFrame

\* line 449, "fsp_evt_rb.loc += 1": the attribute loaded
Thread_load_loc(t) ==
    /\ threads.pc[t] = "load"
    /\ threads' = [threads EXCEPT !.pc[t] = "store", !.tmp[t] = loc[threads.fsp_evt_rb[t]]]
    /\ UNCHANGED <<loc, keyed_dict, ret, wrote>>
    /\ ThreadFrame

\* line 449: the sum stored; line 451: return fsp_evt_rb.is_full()
Thread_store_loc(t) ==
    LET b == threads.fsp_evt_rb[t] IN
    /\ threads.pc[t] = "store"
    /\ loc' = [loc EXCEPT ![b] = threads.tmp[t] + 1]
    /\ threads' = [ThreadDone(threads, t) EXCEPT !.rows[b] = @ + 1]
    /\ ret' = Ret("FSPEventDecoder.decode_packet", FSPEventDecoder_key_list[1], <<b>>, b,
                  "return", Str(is_full(lgdo[b], threads.tmp[t] + 1, fill_safety[b])))
    /\ UNCHANGED <<keyed_dict, wrote>>
    /\ ThreadFrame

NextThreads ==
    \/ \E t \in Threads : Thread_get_buffer(t)
    \/ \E t \in Threads : Thread_write_row(t)
    \/ \E t \in Threads : Thread_load_loc(t)
    \/ \E t \in Threads : Thread_store_loc(t)

SpecThreads == InitThreads /\ [][NextThreads]_vars
\* ------------------------------------------------- setting up buffer lists
\* A library whose lists are still empty, filled by set_from_dict calls that
\* may come before or after a list's get_keyed_dict.
NewKeyLists == {<<0>>, <<1>>, <<0, 1>>, <<2>>}
Unused == Bufs \ UNION {Range(rb_lib[n]) : n \in ListNames}

EmptyLibrary ==
    /\ rb_lib = [n \in ListNames |-> <<>>]
    /\ lgdo = [b \in Bufs |-> NoTable]
    /\ key_list = [b \in Bufs |-> <<>>]
    /\ out_stream = [b \in Bufs |-> <<>>]
    /\ proc_spec = [b \in Bufs |-> FALSE]
    /\ fill_safety = [b \in Bufs |-> 1]
    /\ loc = [b \in Bufs |-> 0]
    /\ keyed_dict = [n \in ListNames |-> NoDict]
    /\ skipped_channels = [k \in Keys |-> 0]
    /\ garbage_loc = 0
    /\ ret = Ret("__init__", -1, <<>>, 0, "return", "None")
    /\ old_loc = [b \in Bufs |-> 0]
    /\ packet = <<>>
    /\ row = NoRow
    /\ wrote = {}
    /\ store_writes = <<>>
    /\ decoded = [b \in Bufs |-> 0]
    /\ presented = [n \in ListNames |-> [k \in Keys |-> 0]]

InitList == EmptyLibrary /\ expand = NoExpand /\ NoStreams /\ NoLate

\* RawBufferList.get_keyed_dict() on the list of a decoder
RawBufferList_get_keyed_dict ==
    /\ \E name \in ListNames :
        /\ keyed_dict' = Cache(name)
        /\ ret' = Ret("RawBufferList.get_keyed_dict", -1, rb_lib[name], 0, "return", name)
    /\ old_loc' = loc
    /\ packet' = <<>>
    /\ row' = NoRow
    /\ wrote' = {}
    /\ store_writes' = <<>>
    /\ UNCHANGED <<setup, config, loc, skipped_channels, garbage_loc, decoded, presented>>

\* RawBufferList.set_from_dict(config) with an expanded config of one entry:
\* a new RawBuffer with the entry's key_list and out_stream is appended
RawBufferList_set_from_dict ==
    /\ \E name \in ListNames, b \in Unused, kl \in NewKeyLists :
        /\ rb_lib' = [rb_lib EXCEPT ![name] = Append(@, b)]
        /\ key_list' = [key_list EXCEPT ![b] = kl]
        /\ out_stream' = [out_stream EXCEPT ![b] = <<"f">>]
        /\ ret' = Ret("RawBufferList.set_from_dict", -1, <<b>>, 0, "return", name)
    /\ old_loc' = loc
    /\ packet' = <<>>
    /\ row' = NoRow
    /\ wrote' = {}
    /\ store_writes' = <<>>
    /\ UNCHANGED <<setup, lgdo, proc_spec, fill_safety, loc, keyed_dict, skipped_channels,
                   garbage_loc, decoded, presented>>

NextList ==
    \/ RawBufferList_get_keyed_dict
    \/ RawBufferList_set_from_dict

SpecList == InitList /\ [][NextList]_vars

\* ------------------------------------------------------ expand_rblist_dict
\* A key_list entry of a config: an integer key, a 2-element list [a, b], or
\* the wildcard string "*".
KeyEntry(k) == [t |-> "key", a |-> k, b |-> k]
RangeEntry(a, b) == [t |-> "range", a |-> a, b |-> b]
StarEntry == [t |-> "star", a |-> 0, b |-> 0]

\* str(key), as str.format renders a key
Digits == <<"0", "1", "2">>
KeyStr(e) ==
    IF e.t = "star" THEN "*" ELSE IF e.t = "range" THEN "[]" ELSE Digits[e.a + 1]

\* Python list indexing and slice assignment, with negative indices
PyIndexOk(l, i) == -Len(l) <= i /\ i < Len(l)
PyGet(l, i) == l[(IF i < 0 THEN i + Len(l) ELSE i) + 1]
Clamp(i, n) ==
    IF i < 0 THEN (IF i + n < 0 THEN 0 ELSE i + n) ELSE (IF i > n THEN n ELSE i)
SliceAssign(l, i, j, r) ==
    LET start == Clamp(i, Len(l))
        stop == IF Clamp(j, Len(l)) < start THEN start ELSE Clamp(j, Len(l))
    IN SubSeq(l, 1, start) \o r \o SubSeq(l, stop + 1, Len(l))
\* (mutant) the last key of the range is left out
PyRange_short(a, b1) == [k \in 1..(IF b1 - 1 > a THEN b1 - 1 - a ELSE 0) |-> KeyEntry(a + k - 1)]

\* range(a, b1)
PyRange(a, b1) == [k \in 1..(IF b1 > a THEN b1 - a ELSE 0) |-> KeyEntry(a + k - 1)]

\* a config dictionary: its entries in insertion order
Info(kl, os, ps) ==
    [has_key_list |-> TRUE, key_list |-> kl, has_out_stream |-> TRUE, out_stream |-> os,
     proc_spec |-> ps]
Entry(name, info) == [name |-> name, info |-> info]
Has(cfg, name) == \E j \in DOMAIN cfg : cfg[j].name = name
Lookup(cfg, name) == CHOOSE j \in DOMAIN cfg : cfg[j].name = name
Put(cfg, name, info) ==
    IF Has(cfg, name) THEN [cfg EXCEPT ![Lookup(cfg, name)].info = info]
    ELSE Append(cfg, Entry(name, info))
Pop(cfg, name) == SelectSeq(cfg, LAMBDA e : e.name # name)

\* name.format(key=key) and out_stream.format(**kw_dict), token by token
RECURSIVE NameFormat(_, _)
NameFormat(name, key) ==
    IF name = <<>> THEN <<>>
    ELSE (IF Head(name) = "{key}" THEN <<KeyStr(key)>> ELSE <<Head(name)>>)
         \o NameFormat(Tail(name), key)
RECURSIVE Format(_, _)
Format(os, kw) ==
    IF os = <<>> THEN <<>>
    ELSE (IF Head(os) = "{key}" THEN <<KeyStr(kw.key)>>
          ELSE IF Head(os) = "{name}" THEN kw.name
          ELSE <<Head(os)>>)
         \o Format(Tail(os), kw)
FormatFails(os, kw) ==
    \/ "{key}" \in Range(os) /\ ~kw.has_key
    \/ "{name}" \in Range(os) /\ ~kw.has_name

IsWildcard(kl) == Len(kl) = 1 /\ kl[1].t = "star"

\* (mutant) every entry keeps the whole key_list of the template
RECURSIVE FanOut_whole_list(_, _, _, _, _)
FanOut_whole_list(cfg, name, info, kl, j) ==
    IF j > Len(kl) THEN cfg
    ELSE FanOut_whole_list(Put(cfg, NameFormat(name, kl[j]), info), name, info, kl, j + 1)

\* "for key in info['key_list']": one entry per key, named by the template
RECURSIVE FanOut(_, _, _, _, _)
FanOut(cfg, name, info, kl, j) ==
    IF j > Len(kl) THEN cfg
    ELSE FanOut(Put(cfg, NameFormat(name, kl[j]), [info EXCEPT !.key_list = <<kl[j]>>]),
                name, info, kl, j + 1)

\* the second loop: kw_dict is shared by all the entries
RECURSIVE OutPaths(_, _, _)
OutPaths(cfg, j, kw) ==
    IF j > Len(cfg) THEN [config |-> cfg, kw_dict |-> kw, exc |-> None]
    ELSE
    LET info == cfg[j].info
        kw1 == IF Len(info.key_list) = 1 /\ ~IsWildcard(info.key_list)
               THEN [kw EXCEPT !.has_key = TRUE, !.key = info.key_list[1]] ELSE kw
        kw2 == IF info.has_out_stream /\ cfg[j].name # <<"*">>
                  /\ "{name}" \in Range(info.out_stream)
               THEN [kw1 EXCEPT !.has_name = TRUE, !.name = cfg[j].name] ELSE kw1
    IN
    IF ~info.has_out_stream THEN OutPaths(cfg, j + 1, kw1)
    ELSE IF FormatFails(info.out_stream, kw2)
        THEN [config |-> cfg, kw_dict |-> kw2, exc |-> "KeyError"]
    ELSE OutPaths([cfg EXCEPT ![j].info.out_stream = Format(info.out_stream, kw2)],
                  j + 1, kw2)

\* the call expand_rblist_dict(config, {}) at its first statement
ExpandCall(cfg) ==
    [pc |-> "for", input |-> cfg, config |-> cfg,
     buffer_names |-> [j \in DOMAIN cfg |-> cfg[j].name],
     i |-> 0, key_list0 |-> <<>>, kw_dict |-> NoKw, exc |-> None]
Raise(e) == [expand EXCEPT !.pc = "raise", !.exc = e]

\* the name the first loop is at, and its key_list
cur_name == Head(expand.buffer_names)
cur_info == expand.config[Lookup(expand.config, cur_name)].info

\* top of "for name in buffer_names": the checks of the name and its key_list
expand_check_name ==
    /\ expand.pc = "for"
    /\ expand.buffer_names # <<>>
    /\ expand' = IF cur_name = <<>> THEN Raise("ValueError")
                 ELSE IF ~Has(expand.config, cur_name) THEN Raise("KeyError")
                 ELSE IF ~cur_info.has_key_list THEN Raise("ValueError")
                 ELSE [expand EXCEPT !.pc = "while", !.i = 0,
                                     !.key_list0 = cur_info.key_list]
    /\ UNCHANGED <<core, streams, late>>

\* one iteration of "while i < len(info['key_list'])"
expand_range_step ==
    /\ expand.pc = "while"
    /\ expand.i < Len(cur_info.key_list)
    /\ LET kl == cur_info.key_list
           i == expand.i
           at == Lookup(expand.config, cur_name)
       IN
       IF ~PyIndexOk(kl, i) THEN expand' = Raise("IndexError")
       ELSE LET key_range == PyGet(kl, i) IN
            IF key_range.t = "range"
            THEN expand' = [expand EXCEPT
                    !.config[at].info.key_list =
                        SliceAssign(kl, i, i + 1, PyRange(key_range.a, key_range.b + 1)),
                    !.i = i + (key_range.b - key_range.a) + 1]
            ELSE expand' = [expand EXCEPT !.i = i + 1]
    /\ UNCHANGED <<core, streams, late>>

\* after the while loop: the name's fan-out over its keys, then the next name
expand_key_names ==
    /\ expand.pc = "while"
    /\ expand.i >= Len(cur_info.key_list)
    /\ expand' = [expand EXCEPT
            !.config = IF "{key}" \in Range(cur_name) /\ ~IsWildcard(cur_info.key_list)
                       THEN Pop(FanOut(expand.config, cur_name, cur_info, cur_info.key_list, 1), cur_name)
                       ELSE expand.config,
            !.buffer_names = Tail(expand.buffer_names),
            !.pc = "for"]
    /\ UNCHANGED <<core, streams, late>>

\* after the first loop: "for name, info in config.items()", then return
expand_out_streams ==
    /\ expand.pc = "for"
    /\ expand.buffer_names = <<>>
    /\ LET r == OutPaths(expand.config, 1, expand.kw_dict) IN
       expand' = [expand EXCEPT !.config = r.config, !.kw_dict = r.kw_dict,
                                !.pc = IF r.exc = None THEN "return" ELSE "raise",
                                !.exc = r.exc]
    /\ UNCHANGED <<core, streams, late>>

\* the configs handed to expand_rblist_dict: one buffer with any key_list of
\* up to MaxKeyList entries, or two buffers with short key lists
KeyListEntries ==
    {KeyEntry(0), KeyEntry(2), StarEntry} \cup {RangeEntry(a, b) : a, b \in Keys}
KeyLists(n) == UNION {[1..m -> KeyListEntries] : m \in 0..n}
Names == {<<"a">>, <<"ch", "{key}">>, <<"ch", "1">>, <<"*">>}
ShortKeyLists ==
    {<<KeyEntry(1)>>, <<KeyEntry(0), KeyEntry(1)>>, <<RangeEntry(0, 1)>>, <<StarEntry>>}
OutStreamTemplates == {<<"f">>, <<"f", ":", "{key}">>, <<"f", ":", "{name}">>}
ExpandInputs ==
    { <<Entry(nm, Info(kl, <<"f", ":", "{name}">>, TRUE))>> :
        nm \in {<<"a">>, <<"ch", "{key}">>}, kl \in KeyLists(MaxKeyList) }
    \cup
    { <<Entry(nn[1], Info(k1, o1, TRUE)), Entry(nn[2], Info(k2, o2, FALSE))>> :
        nn \in {q \in Names \X Names : q[1] # q[2]},
        k1 \in ShortKeyLists, k2 \in ShortKeyLists,
        o1 \in OutStreamTemplates, o2 \in OutStreamTemplates }
    \cup
    { <<Entry(<<>>, Info(<<KeyEntry(0)>>, <<"f">>, TRUE))>>,
      <<Entry(<<"a">>, [Info(<<>>, <<"f">>, TRUE) EXCEPT !.has_key_list = FALSE])>>,
      <<Entry(<<"ch", "{key}">>,
              [Info(<<KeyEntry(0), KeyEntry(2)>>, <<>>, TRUE) EXCEPT !.has_out_stream = FALSE])>> }

InitExpand ==
    /\ EmptyLibrary
    /\ \E cfg \in ExpandInputs : expand = ExpandCall(cfg)
    /\ NoStreams
    /\ NoLate

NextExpand ==
    \/ expand_check_name
    \/ expand_range_step
    \/ expand_key_names
    \/ expand_out_streams

SpecExpand == InitExpand /\ [][NextExpand]_vars

\* ------------------------------------------------------ the FCIO readers
\* the instance a call of FCIO() makes: one no earlier call has made
FCIO == 1 + Cardinality({s \in StreamIds : fcio_stream_library[s] # 0})

\* (mutant) a new reader is made on every call
get_fcio_stream_always_new(streamid) ==
    LET made == 1 + Len(fcio_returned) IN
    /\ Len(fcio_returned) < MaxCalls
    /\ fcio_stream_library' = [fcio_stream_library EXCEPT ![streamid] = made]
    /\ fcio_returned' = Append(fcio_returned, <<streamid, made>>)
    /\ ret' = Ret("get_fcio_stream", streamid, <<>>, 0, "return", "FCIO")
    /\ old_loc' = loc
    /\ packet' = <<>>
    /\ row' = NoRow
    /\ wrote' = {}
    /\ store_writes' = <<>>
    /\ UNCHANGED <<expand, late, config, loc, keyed_dict, skipped_channels, garbage_loc,
                   decoded, presented>>

\* get_fcio_stream(streamid)
get_fcio_stream(streamid) ==
    /\ Len(fcio_returned) < MaxCalls
    /\ fcio_stream_library' =
          IF fcio_stream_library[streamid] # 0
          THEN fcio_stream_library
          ELSE [fcio_stream_library EXCEPT ![streamid] = FCIO]
    /\ fcio_returned' = Append(fcio_returned, <<streamid, fcio_stream_library'[streamid]>>)
    /\ ret' = Ret("get_fcio_stream", streamid, <<>>, 0, "return", "FCIO")
    /\ old_loc' = loc
    /\ packet' = <<>>
    /\ row' = NoRow
    /\ wrote' = {}
    /\ store_writes' = <<>>
    /\ UNCHANGED <<expand, late, config, loc, keyed_dict, skipped_channels, garbage_loc,
                   decoded, presented>>

InitFCIO == EmptyLibrary /\ expand = NoExpand /\ NoStreams /\ NoLate
NextFCIO == \E streamid \in StreamIds : get_fcio_stream(streamid)
SpecFCIO == InitFCIO /\ [][NextFCIO]_vars

\* ------------------------------------------- ORCA FlashCam: the ORCA header
\* A listener (one FCIO stream) of the header: its uniqueID, its fspEnabled
\* flag and its children, each a card with its CardAddress and its list of
\* Enabled flags per input.
Card(addr, enabled) == [addr |-> addr, enabled |-> enabled]
Listener(fcid, fsp, cards) == [fcid |-> fcid, fsp |-> fsp, cards |-> cards]

\* The key of a channel: one integer packing the stream id, the card address
\* and the input, each recoverable from it; kept as a record.  A derived key
\* f"fsp_..._{key}" is the string of the prefix and the key.
get_key(fcid, addr, inp) == [kind |-> "int", fcid |-> fcid, addr |-> addr, inp |-> inp]
get_status_key(fcid, reqid) == [kind |-> "int", fcid |-> fcid, addr |-> reqid, inp |-> 0]
get_fcid(key) == key.fcid
DerivedKey(prefix, key) == [key EXCEPT !.kind = prefix]
CardReqId == 8192      \* 0x2000

\* "for fc_input in range(len(Enabled))" from input i on
RECURSIVE InputKeys(_, _, _, _)
InputKeys(fcid, card, i, kl) ==
    IF i > Len(card.enabled) THEN kl
    ELSE LET key == get_key(fcid, card.addr, i - 1) IN
         InputKeys(fcid, card, i + 1,
                   IF card.enabled[i] /\ key \notin Range(kl) THEN Append(kl, key) ELSE kl)
\* "for child in fc_listener_info['children']" from child j on
RECURSIVE ChildKeys(_, _, _, _)
ChildKeys(fcid, cards, j, kl) ==
    IF j > Len(cards) THEN kl
    ELSE ChildKeys(fcid, cards, j + 1, InputKeys(fcid, cards[j], 1, kl))
RECURSIVE CountEnabled(_, _)
CountEnabled(cards, j) ==
    IF j > Len(cards) THEN 0
    ELSE Cardinality({i \in DOMAIN cards[j].enabled : cards[j].enabled[i]})
         + CountEnabled(cards, j + 1)

\* extract_header_information(header): the entries of fc_hdr_info per stream
\* id, in the order of the listeners
extract_header_information(header) ==
    IF \E i \in DOMAIN header : header[i].fcid = 0
    THEN [exc |-> "ValueError", info |-> <<>>]
    ELSE [exc |-> None,
          info |-> [i \in DOMAIN header |->
                      [fcid |-> header[i].fcid,
                       fsp_enabled |-> header[i].fsp,
                       n_card |-> Len(header[i].cards),
                       n_adc |-> CountEnabled(header[i].cards, 1),
                       key_list |-> ChildKeys(header[i].fcid, header[i].cards, 1, <<>>)]]]

PyMax(S) == CHOOSE m \in S : \A x \in S : x <= m
AddFcid(dv, fcid) == IF fcid \in Range(dv) THEN dv ELSE Append(dv, fcid)

\* the loops of the four set_header methods over the stream ids, from entry
\* i of fc_hdr_info on, for a decoder in state d
RECURSIVE ORFCIOConfigDecoder_loop(_, _, _)
ORFCIOConfigDecoder_loop(info, i, d) ==
    IF i > Len(info) THEN d
    ELSE LET key == get_key(info[i].fcid, 0, 0) IN
         ORFCIOConfigDecoder_loop(info, i + 1,
            [d EXCEPT !.key_list[1] = Append(@, key),
                      !.key_list[2] = IF info[i].fsp_enabled
                                      THEN Append(@, DerivedKey("fsp_config", key)) ELSE @,
                      !.fsp_decoder = IF info[i].fsp_enabled THEN "FSPConfigDecoder" ELSE @])

RECURSIVE ORFCIOStatusDecoder_loop(_, _, _)
ORFCIOStatusDecoder_loop(info, i, d) ==
    IF i > Len(info) THEN d
    ELSE LET fcid == info[i].fcid IN
         ORFCIOStatusDecoder_loop(info, i + 1,
            [d EXCEPT !.key_list[1] =
                          <<get_status_key(fcid, 0)>>
                          \o [j \in 1..info[i].n_card |-> get_status_key(fcid, CardReqId + j - 1)],
                      !.key_list[2] = IF info[i].fsp_enabled
                                      THEN Append(@, DerivedKey("fsp_status", get_key(fcid, 0, 0)))
                                      ELSE @,
                      !.fsp_decoder = IF info[i].fsp_enabled THEN "FSPStatusDecoder" ELSE @])

RECURSIVE ORFCIOEventHeaderDecoder_loop(_, _, _)
ORFCIOEventHeaderDecoder_loop(info, i, d) ==
    IF i > Len(info) THEN d
    ELSE LET key == get_key(info[i].fcid, 0, 0) IN
         ORFCIOEventHeaderDecoder_loop(info, i + 1,
            [d EXCEPT !.key_list[1] = Append(@, key),
                      !.decoded_values = AddFcid(@, info[i].fcid),
                      !.key_list[2] = IF info[i].fsp_enabled
                                      THEN Append(@, DerivedKey("fsp_event", key)) ELSE @,
                      !.fsp_decoder = IF info[i].fsp_enabled THEN "FSPEventDecoder" ELSE @])

RECURSIVE ORFCIOEventDecoder_loop(_, _, _)
ORFCIOEventDecoder_loop(info, i, d) ==
    IF i > Len(info) THEN d
    ELSE LET key == get_key(info[i].fcid, 0, 0) IN
         ORFCIOEventDecoder_loop(info, i + 1,
            [d EXCEPT !.key_list[1] = @ \o info[i].key_list,
                      !.decoded_values = AddFcid(@, info[i].fcid),
                      !.key_list[2] = IF info[i].fsp_enabled
                                      THEN Append(@, DerivedKey("fsp_event", key)) ELSE @,
                      !.fsp_decoder = IF info[i].fsp_enabled THEN "FSPEventDecoder" ELSE @])

\* set_header(header) of decoder n in state d: the exception it raises (or
\* None) and the decoder it leaves
set_header(n, d, header) ==
    LET h == extract_header_information(header)
        d0 == [d EXCEPT !.header_set = TRUE]
        Done(d1) == [exc |-> None, d |-> [d1 EXCEPT !.ready = TRUE]]
        Fail(e, d1) == [exc |-> e, d |-> d1]
    IN
    IF h.exc # None THEN Fail(h.exc, d0)
    ELSE IF n = "ORFCIOConfigDecoder"
        THEN Done([ORFCIOConfigDecoder_loop(h.info, 1, [d0 EXCEPT !.decoded_values = <<0>>])
                     EXCEPT !.max_rows_in_packet = 1])
    ELSE IF n = "ORFCIOStatusDecoder"
        THEN LET d1 == ORFCIOStatusDecoder_loop(h.info, 1, [d0 EXCEPT !.decoded_values = <<0>>]) IN
             IF h.info = <<>> THEN Fail("ValueError", d1)
             ELSE Done([d1 EXCEPT !.max_rows_in_packet =
                                     PyMax({h.info[i].n_card : i \in DOMAIN h.info}) + 1])
    ELSE IF n = "ORFCIOEventHeaderDecoder"
        THEN Done([ORFCIOEventHeaderDecoder_loop(h.info, 1, d0) EXCEPT !.max_rows_in_packet = 1])
    ELSE LET d1 == ORFCIOEventDecoder_loop(h.info, 1, d0) IN
         IF h.info = <<>> THEN Fail("ValueError", d1)
         ELSE Done([d1 EXCEPT !.max_rows_in_packet =
                                 PyMax({h.info[i].n_adc : i \in DOMAIN h.info})])

\* get_key_lists(): "list(self.key_list.values())"
get_key_lists(d) == d.key_list

\* get_max_rows_in_packet(): the event-header and config decoders inherit
\* DataDecoder's, which returns 1
get_max_rows_in_packet(n, d) ==
    IF n \in {"ORFCIOStatusDecoder", "ORFCIOEventDecoder"} THEN d.max_rows_in_packet ELSE 1

\* decoder.set_header(header) on a decoder of session x constructed without
\* a header
ORFCIO_set_header(x) ==
    /\ orca.sess[x].made
    /\ \E n \in DecNames :
        LET out == set_header(n, orca.sess[x].dec[n], orca.sess[x].header) IN
        /\ ~orca.sess[x].dec[n].header_set
        /\ orca' = [orca EXCEPT !.sess[x].dec[n] = out.d,
                                !.last = [NoLast EXCEPT !.session = x, !.dec = n]]
        /\ ret' = IF out.exc = None
                  THEN Ret("set_header", -1, <<>>, 0, "return", "None")
                  ELSE Ret("set_header", -1, <<>>, 0, "raise", out.exc)
    /\ old_loc' = loc
    /\ packet' = <<>>
    /\ row' = NoRow
    /\ wrote' = {}
    /\ store_writes' = <<>>
    /\ UNCHANGED <<expand, streams, aside, config, loc, keyed_dict, skipped_channels, garbage_loc,
                   decoded, presented>>

\* the headers handed to a session: no listener, the listener id 0 that the
\* header scan rejects, and one or two listeners with up to two cards of two
\* inputs each
EnabledLists == {<<FALSE, FALSE>>, <<FALSE, TRUE>>, <<TRUE, TRUE>>}
CardLists ==
    {<<>>} \cup {<<Card(1, e)>> : e \in EnabledLists}
    \cup {<<Card(1, e[1]), Card(2, e[2])>> : e \in EnabledLists \X EnabledLists}
Listeners(fcid) == {Listener(fcid, fsp, c) : fsp \in BOOLEAN, c \in CardLists}
Headers ==
    {<<>>, <<Listener(0, FALSE, <<>>)>>}
    \cup {<<l>> : l \in Listeners(1) \cup Listeners(2)}
    \cup {<<l[1], l[2]>> : l \in (Listeners(1) \X Listeners(2)) \cup (Listeners(2) \X Listeners(1))}

\* session 1 with its decoders constructed and a header read
InitHeader ==
    /\ EmptyLibrary /\ expand = NoExpand /\ NoStreams /\ NoAside
    /\ \E header \in Headers :
          orca = [NoOrca EXCEPT !.sess[1].made = TRUE, !.sess[1].header = header]
NextHeader == ORFCIO_set_header(1)
SpecHeader == InitHeader /\ [][NextHeader]_vars

\* ------------------------------------------- ORCA FlashCam: the envelopes
\* An ORCA packet carries a stream id (packet[2]) and FCIO bytes; the
\* reader's get_record yields the records of the bytes, each with a tag.
Tags == {"Status", "EventHeader", "Event", "SparseEvent"}
Envelopes ==
    {<<>>} \cup {<<t>> : t \in Tags} \cup {<<t, t>> : t \in Tags}
    \cup {<<"Status", "Event">>, <<"EventHeader", "Event">>}

\* the buffers the streamer declares for decoder n: one per key list of
\* get_key_lists, of buffer_size rows, fill_safety = get_max_rows_in_packet()
DeclareBuffers(n, d) ==
    [j \in 1..2 |->
        IF get_key_lists(d)[j] = <<>> THEN NoBuffer
        ELSE [declared |-> TRUE, key_list |-> get_key_lists(d)[j], loc |-> 0,
              size |-> OrcaBufSize, fill_safety |-> get_max_rows_in_packet(n, d)]]

\* a session: the four decoders constructed with the header of the file, and
\* their buffers
NewSession(header) ==
    LET dec == [n \in DecNames |-> set_header(n, NewDecoder(n), header).d] IN
    [made |-> TRUE, header |-> header, dec |-> dec,
     buf |-> [n \in DecNames |-> DeclareBuffers(n, dec[n])]]

\* rbl.get_keyed_dict()[key] of a decoder's buffers: the index of the buffer
\* (0: the key is not in the dictionary)
Dest(bufs, key) ==
    IF bufs[2].declared /\ key \in Range(bufs[2].key_list) THEN 2
    ELSE IF bufs[1].declared /\ key \in Range(bufs[1].key_list) THEN 1
    ELSE 0
BufFull(b) == is_full([has |-> TRUE, size |-> b.size], b.loc, b.fill_safety)

\* what the reader holds of stream streamid: the configuration read from the
\* configuration packet of the session that opened it
StreamInfo(header, streamid) ==
    LET h == extract_header_information(header).info IN
    IF \E i \in DOMAIN h : h[i].fcid = streamid
    THEN h[CHOOSE i \in DOMAIN h : h[i].fcid = streamid]
    ELSE [fcid |-> streamid, fsp_enabled |-> FALSE, n_card |-> 0, n_adc |-> 0,
          key_list |-> <<>>]

\* the keys a primary decoder writes a row for, for one record: the board and
\* every card of a status record, the stream of an event header, every trace
\* of an event (a sparse event carries only its first trace here)
RecordKeys(tag, info) ==
    IF tag = "Status"
    THEN <<get_status_key(info.fcid, 0)>>
         \o [j \in 1..info.n_card |-> get_status_key(info.fcid, CardReqId + j - 1)]
    ELSE IF tag = "EventHeader" THEN <<get_key(info.fcid, 0, 0)>>
    ELSE IF tag = "Event" THEN info.key_list
    ELSE SubSeq(info.key_list, 1, IF info.key_list = <<>> THEN 0 ELSE 1)

\* "if fcio_stream.tag == Tags...." of decoder n
Handles(n, tag) ==
    \/ n = "ORFCIOConfigDecoder" /\ tag = "FCIOConfig"
    \/ n = "ORFCIOStatusDecoder" /\ tag = "Status"
    \/ n = "ORFCIOEventHeaderDecoder" /\ tag = "EventHeader"
    \/ n = "ORFCIOEventDecoder" /\ tag \in {"Event", "SparseEvent"}

\* the state of one decode_packet call: the decoder's buffers, the exception
\* raised so far, any_full, the fullness the running nested call reports, the
\* values the nested calls returned and the rows written per buffer
StartCall(bufs) ==
    [buf |-> bufs, exc |-> None, any_full |-> FALSE, full |-> FALSE,
     nested |-> <<>>, rows |-> <<0, 0>>, dispatched |-> 0, overflow |-> FALSE]

\* one row written at the cursor of buffer j, "rb.loc += 1", "rb.is_full()"
WriteRow(st, j) ==
    IF st.exc # None THEN st
    ELSE IF st.buf[j].loc >= st.buf[j].size THEN [st EXCEPT !.exc = "IndexError", !.overflow = TRUE]
    ELSE LET b == [st.buf[j] EXCEPT !.loc = @ + 1] IN
         [st EXCEPT !.buf[j] = b, !.rows[j] = @ + 1, !.full = @ \/ BufFull(b)]

\* a primary decoder given the dictionary: a row for every key of the record
\* that has a buffer, from key i on
RECURSIVE WriteRows(_, _, _)
WriteRows(st, keys, i) ==
    IF i > Len(keys) \/ st.exc # None THEN st
    ELSE LET j == Dest(st.buf, keys[i]) IN
         WriteRows(IF j = 0 THEN st ELSE WriteRow(st, j), keys, i + 1)

\* "any_full |= <nested call>": the call's value joins nested and any_full
Nested(st) ==
    IF st.exc # None THEN st
    ELSE [st EXCEPT !.nested = Append(@, Str(st.full)), !.any_full = @ \/ st.full,
                    !.full = FALSE]

\* self.decoder.decode_packet(fcio_stream, rbkd, packet_id)
primary_decode_packet(st, keys) ==
    Nested(WriteRows([st EXCEPT !.full = FALSE, !.dispatched = @ + 1], keys, 1))

\* the key_list of an FSP decoder the ORFCIO decoders construct: "[]" of
\* __init__; set_fcio_stream, which would fill it, is not called
FSP_key_list == <<>>

\* FSPStatusDecoder.decode_packet and FSPEventDecoder.decode_packet given the
\* dictionary: the buffer of self.key_list[0]
fsp_decode_packet(fsp_decoder, st) ==
    IF st.exc # None THEN st
    ELSE IF FSP_key_list = <<>> THEN [st EXCEPT !.exc = "IndexError"]
    ELSE LET j == Dest(st.buf, FSP_key_list[1]) IN
         IF j = 0
         THEN IF fsp_decoder = "FSPStatusDecoder" THEN [st EXCEPT !.exc = "KeyError"]
              ELSE Nested([st EXCEPT !.full = FALSE])
         ELSE Nested(WriteRow([st EXCEPT !.full = FALSE], j))

\* "if self.fsp_decoder is not None: any_full |= self.fsp_decoder.decode_packet(...)"
\* the attribute is missing when __init__ did not assign it and no stream
\* has FSP enabled; FSPConfigDecoder has no decode_packet
fsp_branch(d, st) ==
    IF st.exc # None THEN st
    ELSE IF d.fsp_decoder = "unset" THEN [st EXCEPT !.exc = "AttributeError"]
    ELSE IF d.fsp_decoder = "None" THEN st
    ELSE IF d.fsp_decoder = "FSPConfigDecoder" THEN [st EXCEPT !.exc = "AttributeError"]
    ELSE fsp_decode_packet(d.fsp_decoder, st)

\* "while fcio_stream.get_record():" from record i on
RECURSIVE DecodeRecords(_, _, _, _, _, _)
DecodeRecords(n, d, st, recs, i, info) ==
    IF i > Len(recs) \/ st.exc # None THEN st
    ELSE DecodeRecords(n, d,
            IF Handles(n, recs[i])
            THEN fsp_branch(d, primary_decode_packet(st, RecordKeys(recs[i], info)))
            ELSE st,
            recs, i + 1, info)

\* what a decode_packet call leaves of the shared state
OrcaCall(x, n, streamid, recs, inst, readers, st) ==
    /\ fcio_stream_library' =
          IF fcio_stream_library[streamid] # 0 THEN fcio_stream_library
          ELSE [fcio_stream_library EXCEPT ![streamid] = FCIO]
    /\ fcio_returned' = Append(fcio_returned, <<streamid, inst>>)
    /\ orca' = [orca EXCEPT !.readers = readers,
                            !.sess[x].buf[n] = st.buf,
                            !.last = [session |-> x, dec |-> n, nested |-> st.nested,
                                      rows |-> st.rows, streamid |-> streamid,
                                      inst |-> inst, dispatched |-> st.dispatched,
                                      before |-> orca.sess[x].buf[n], recs |-> recs,
                                      overflow |-> st.overflow]]
    /\ ret' = IF st.exc = None
              THEN Ret("decode_packet", streamid, <<>>, 0, "return", Str(st.any_full))
              ELSE Ret("decode_packet", streamid, <<>>, 0, "raise", st.exc)
    /\ old_loc' = loc
    /\ packet' = <<>>
    /\ row' = NoRow
    /\ wrote' = {}
    /\ store_writes' = <<>>
    /\ UNCHANGED <<expand, aside, config, loc, keyed_dict, skipped_channels, garbage_loc,
                   decoded, presented>>

\* the instance get_fcio_stream(streamid) returns
Fetched(streamid) ==
    IF fcio_stream_library[streamid] # 0 THEN fcio_stream_library[streamid] ELSE FCIO

ORFCIOConfigDecoder_decode_packet_reopens(x, streamid) ==
    LET n == "ORFCIOConfigDecoder"
        d == orca.sess[x].dec[n]
        inst == Fetched(streamid)
        st0 == StartCall(orca.sess[x].buf[n])
        fc_key == get_key(streamid, 0, 0)
        j == Dest(st0.buf, fc_key)
        opened == [orca.readers EXCEPT ![inst] =
                      [open |-> TRUE, streamid |-> streamid, session |-> x]]
    IN
    /\ orca.sess[x].made /\ d.ready
    /\ Len(fcio_returned) < OrcaCalls
    /\ IF j = 0
       THEN OrcaCall(x, n, streamid, <<"FCIOConfig">>, inst, opened,
                     [st0 EXCEPT !.exc = "KeyError"])
       ELSE OrcaCall(x, n, streamid, <<"FCIOConfig">>, inst, opened,
                     fsp_branch(d, Nested(WriteRow([st0 EXCEPT !.dispatched = 1], j))))
\* ORFCIOConfigDecoder.decode_packet(packet, packet_id, rbl) of session x, for
\* a packet of stream streamid whose bytes hold that stream's configuration
ORFCIOConfigDecoder_decode_packet(x, streamid) ==
    LET n == "ORFCIOConfigDecoder"
        d == orca.sess[x].dec[n]
        inst == Fetched(streamid)
        st0 == StartCall(orca.sess[x].buf[n])
        fc_key == get_key(streamid, 0, 0)
        j == Dest(st0.buf, fc_key)
        opened == [orca.readers EXCEPT ![inst] =
                      [open |-> TRUE, streamid |-> streamid, session |-> x]]
    IN
    /\ orca.sess[x].made /\ d.ready
    /\ Len(fcio_returned) < OrcaCalls
    /\ IF orca.readers[inst].open
       THEN OrcaCall(x, n, streamid, <<"FCIOConfig">>, inst, orca.readers,
                     [st0 EXCEPT !.exc = "NotImplementedError"])
       ELSE IF j = 0
       THEN OrcaCall(x, n, streamid, <<"FCIOConfig">>, inst, opened,
                     [st0 EXCEPT !.exc = "KeyError"])
       ELSE OrcaCall(x, n, streamid, <<"FCIOConfig">>, inst, opened,
                     fsp_branch(d, Nested(WriteRow([st0 EXCEPT !.dispatched = 1], j))))

\* decode_packet(packet, packet_id, rbl) of the status, event-header and
\* event decoder of session x, for a packet of an opened stream whose bytes
\* hold the records recs
ORFCIO_decode_packet(x, n, streamid, recs) ==
    LET d == orca.sess[x].dec[n]
        inst == Fetched(streamid)
        rd == orca.readers[inst]
    IN
    /\ n # "ORFCIOConfigDecoder"
    /\ orca.sess[x].made /\ d.ready
    /\ Len(fcio_returned) < OrcaCalls
    /\ rd.open
    /\ OrcaCall(x, n, streamid, recs, inst, orca.readers,
                DecodeRecords(n, d, StartCall(orca.sess[x].buf[n]), recs, 1,
                              StreamInfo(orca.sess[rd.session].header, rd.streamid)))

\* the streamer after a call returned True: the full buffers of the session
\* are written out and cleared
ORCA_flush(x) ==
    /\ orca.sess[x].made
    /\ \E n \in DecNames, j \in 1..2 :
          orca.sess[x].buf[n][j].declared /\ BufFull(orca.sess[x].buf[n][j])
    /\ orca' = [orca EXCEPT
                  !.sess[x].buf = [n \in DecNames |-> [j \in 1..2 |->
                        IF @[n][j].declared /\ BufFull(@[n][j])
                        THEN [@[n][j] EXCEPT !.loc = 0] ELSE @[n][j]]],
                  !.last = NoLast]
    /\ ret' = Ret("flush", -1, <<>>, 0, "return", "None")
    /\ old_loc' = loc
    /\ packet' = <<>>
    /\ row' = NoRow
    /\ wrote' = {}
    /\ store_writes' = <<>>
    /\ UNCHANGED <<expand, streams, aside, config, loc, keyed_dict, skipped_channels, garbage_loc,
                   decoded, presented>>

\* the next file of the process: a new set of decoders constructed from its
\* header; the module-level fcio_stream_library is left as it is
ORCA_new_session(x, header) ==
    /\ x > 1 /\ orca.sess[x - 1].made /\ ~orca.sess[x].made
    /\ orca' = [orca EXCEPT !.sess[x] = NewSession(header), !.last = NoLast]
    /\ ret' = Ret("new_session", -1, <<>>, 0, "return", "None")
    /\ old_loc' = loc
    /\ packet' = <<>>
    /\ row' = NoRow
    /\ wrote' = {}
    /\ store_writes' = <<>>
    /\ UNCHANGED <<expand, streams, aside, config, loc, keyed_dict, skipped_channels, garbage_loc,
                   decoded, presented>>

\* the headers of the files converted: one listener, stream id 1, FSP
\* enabled or not, one card with one or two enabled inputs
OrcaHeaders ==
    {<<Listener(1, fsp, <<Card(1, e)>>)>> :
        fsp \in BOOLEAN, e \in {<<FALSE, TRUE>>, <<TRUE, TRUE>>}}
\* the packets carry the stream id of the listener
OrcaStreamIds == {1}

InitOrca ==
    /\ EmptyLibrary /\ expand = NoExpand /\ NoStreams /\ NoAside
    /\ \E header \in OrcaHeaders : orca = [NoOrca EXCEPT !.sess[1] = NewSession(header)]
NextOrca ==
    \E x \in Sessions :
        \/ \E streamid \in OrcaStreamIds : ORFCIOConfigDecoder_decode_packet(x, streamid)
        \/ \E n \in DecNames, streamid \in OrcaStreamIds, recs \in Envelopes :
              ORFCIO_decode_packet(x, n, streamid, recs)
        \/ ORCA_flush(x)
        \/ \E header \in OrcaHeaders : ORCA_new_session(x, header)
SpecOrca == InitOrca /\ [][NextOrca]_vars

\* ------------------------------------- LLAMA: the schema of the channels
\* the fields of a channel configuration that set_channel_configs and
\* get_key_lists read
ChannelConfig(sl, asl, am, fb, sf) ==
    [sample_length |-> sl, avg_sample_length |-> asl, avg_mode |-> am,
     format_bits |-> fb, sample_freq |-> sf]
\* one configuration and four that differ from it in one field each
ChannelConfigs ==
    {ChannelConfig(2, 2, 1, 0, 125), ChannelConfig(0, 2, 1, 0, 125),
     ChannelConfig(2, 2, 0, 0, 125), ChannelConfig(2, 2, 1, 1, 125),
     ChannelConfig(2, 2, 1, 0, 250)}

\* "int(1/sample_clock_freq*1000 + 0.5)", the frequency in MHz
dt_raw(sample_clock_freq) == (2000 + sample_clock_freq) \div (2 * sample_clock_freq)
RECURSIVE Pow2(_)
Pow2(n) == IF n = 0 THEN 1 ELSE 2 * Pow2(n - 1)
NoWaveform == [has |-> FALSE, wf_len |-> 0, dt |-> 0]
\* __add_waveform
add_waveform(max_samples, dt) == [has |-> TRUE, wf_len |-> max_samples, dt |-> dt]

\* decoded_values[fch] as the loop body of set_channel_configs builds it: the
\* template's fields, the waveforms and the optional field groups
ChannelSchema(cfg) ==
    [waveform |-> IF cfg.sample_length > 0
                  THEN add_waveform(cfg.sample_length, dt_raw(cfg.sample_freq))
                  ELSE NoWaveform,
     auxwaveform |-> IF cfg.avg_sample_length > 0 /\ cfg.avg_mode > 0
                     THEN add_waveform(cfg.avg_sample_length,
                                       dt_raw(cfg.sample_freq) * Pow2(cfg.avg_mode + 1))
                     ELSE NoWaveform,
     accum1till6 |-> cfg.format_bits % 2 = 1,
     accum7and8 |-> (cfg.format_bits \div 2) % 2 = 1,
     maw |-> (cfg.format_bits \div 4) % 2 = 1,
     energy |-> (cfg.format_bits \div 8) % 2 = 1]

\* check_dict_spec_equal(c1, c2, ["sample_length", "avg_sample_length", "avg_mode"])
check_equal(c1, c2) ==
    /\ c1.sample_length = c2.sample_length
    /\ c1.avg_sample_length = c2.avg_sample_length
    /\ c1.avg_mode = c2.avg_mode

\* channel_configs[fch] of a dict given as the sequence of its items
ConfigOf(cc, fch) == cc[CHOOSE i \in DOMAIN cc : cc[i].fch = fch].config

\* "for kl in kll": the list from k on whose first entry matches, 0 for the
\* for-else
RECURSIVE FirstMatch(_, _, _, _)
FirstMatch(cc, cfg, kll, k) ==
    IF k > Len(kll) THEN 0
    ELSE IF check_equal(cfg, ConfigOf(cc, kll[k][1])) THEN k
    ELSE FirstMatch(cc, cfg, kll, k + 1)

\* "for fch_id, config in self.channel_configs.items()" from item i on
RECURSIVE ChannelKeyLists(_, _, _)
ChannelKeyLists(cc, i, kll) ==
    IF i > Len(cc) THEN kll
    ELSE LET k == FirstMatch(cc, cc[i].config, kll, 1) IN
         ChannelKeyLists(cc, i + 1,
                  IF k = 0 THEN Append(kll, <<cc[i].fch>>)
                  ELSE [kll EXCEPT ![k] = Append(@, cc[i].fch)])

\* what a call that touches no buffer leaves of the last call
Returns(r) ==
    /\ ret' = r
    /\ old_loc' = loc
    /\ packet' = <<>>
    /\ row' = NoRow
    /\ wrote' = {}
    /\ store_writes' = <<>>
    /\ UNCHANGED <<expand, streams, config, loc, keyed_dict, skipped_channels, garbage_loc,
                   decoded, presented, cells, ragged, threads>>

\* set_channel_configs(channel_configs)
LLAMAEventDecoder_set_channel_configs(cc) ==
    /\ ~llama.configured
    /\ llama' = [llama EXCEPT
                    !.configured = TRUE,
                    !.channel_configs = cc,
                    !.decoded_values = [i \in DOMAIN cc |->
                                          [fch |-> cc[i].fch, schema |-> ChannelSchema(cc[i].config)]],
                    !.asked = FALSE, !.kll = <<>>, !.schema = <<>>]
    /\ Returns(Ret("LLAMAEventDecoder.set_channel_configs", -1, <<>>, 0, "return", "None"))
    /\ UNCHANGED <<orca, mk, ls>>

\* (mutant) no channel configuration gives no key list
LLAMAEventDecoder_get_key_lists_empty ==
    /\ llama' = [llama EXCEPT !.asked = ~llama.configured,
                              !.early = IF llama.configured THEN @ ELSE @ \cup {"get_key_lists"},
                              !.kll = ChannelKeyLists(llama.channel_configs, 1, <<>>),
                              !.schema = <<>>]
    /\ Returns(Ret("LLAMAEventDecoder.get_key_lists", -1, <<>>, 0, "return", "kll"))
    /\ UNCHANGED <<orca, mk, ls>>

\* get_key_lists()
LLAMAEventDecoder_get_key_lists ==
    /\ llama' = [llama EXCEPT !.asked = ~llama.configured,
                              !.early = IF llama.configured THEN @ ELSE @ \cup {"get_key_lists"},
                              !.kll = IF llama.configured
                                      THEN ChannelKeyLists(llama.channel_configs, 1, <<>>) ELSE <<>>,
                              !.schema = <<>>]
    /\ Returns(IF llama.configured
               THEN Ret("LLAMAEventDecoder.get_key_lists", -1, <<>>, 0, "return", "kll")
               ELSE Ret("LLAMAEventDecoder.get_key_lists", -1, <<>>, 0, "raise", "RuntimeError"))
    /\ UNCHANGED <<orca, mk, ls>>

\* get_decoded_values(key); key -1 stands for None
LLAMAEventDecoder_get_decoded_values(key) ==
    LET op == "LLAMAEventDecoder.get_decoded_values"
        dv == llama.decoded_values
        found == \E i \in DOMAIN dv : dv[i].fch = key
    IN
    /\ llama' = [llama EXCEPT !.asked = ~llama.configured,
                              !.early = IF llama.configured THEN @
                                        ELSE @ \cup {"get_decoded_values"},
                              !.kll = <<>>,
                              !.schema = IF key # -1 /\ found
                                         THEN <<dv[CHOOSE i \in DOMAIN dv : dv[i].fch = key].schema>>
                                         ELSE <<>>]
    /\ Returns(IF key = -1 THEN Ret(op, key, <<>>, 0, "raise", "RuntimeError")
               ELSE IF ~found THEN Ret(op, key, <<>>, 0, "raise", "KeyError")
               ELSE Ret(op, key, <<>>, 0, "return", "decoded_values"))
    /\ UNCHANGED <<orca, mk, ls>>

\* ORFCIOEventDecoder.get_decoded_values(key) of session x; a key of kind
\* "None" stands for None
ORFCIOEventDecoder_get_decoded_values(x, key) ==
    LET op == "ORFCIOEventDecoder.get_decoded_values"
        d == orca.sess[x].dec["ORFCIOEventDecoder"]
    IN
    /\ orca.sess[x].made
    /\ llama' = [llama EXCEPT !.asked = ~d.header_set,
                              !.early = IF d.header_set THEN @
                                        ELSE @ \cup {"ORFCIOEventDecoder.get_decoded_values"},
                              !.kll = <<>>, !.schema = <<>>]
    /\ Returns(IF key.kind = "None"
               THEN IF Len(d.decoded_values) > 0
                    THEN Ret(op, -1, <<>>, 0, "return", "decoded_values")
                    ELSE Ret(op, -1, <<>>, 0, "raise", "RuntimeError")
               ELSE IF key.kind = "fsp_event" /\ d.fsp_decoder # "None"
               THEN Ret(op, key.fcid, <<>>, 0, "return", "decoded_values")
               ELSE IF key.kind = "int" /\ get_fcid(key) \in Range(d.decoded_values)
               THEN Ret(op, key.fcid, <<>>, 0, "return", "decoded_values")
               ELSE Ret(op, key.fcid, <<>>, 0, "raise", "KeyError"))
    /\ UNCHANGED <<orca, mk, ls>>

\* the dicts given to set_channel_configs: up to three channels, fch ids in
\* file order
ChannelDicts ==
    {<<>>}
    \cup {<<[fch |-> 0, config |-> c]>> : c \in ChannelConfigs}
    \cup {<<[fch |-> 0, config |-> c[1]], [fch |-> 1, config |-> c[2]]>> :
            c \in ChannelConfigs \X ChannelConfigs}
    \cup {<<[fch |-> 0, config |-> c[1]], [fch |-> 1, config |-> c[2]],
            [fch |-> 2, config |-> c[3]]>> :
            c \in ChannelConfigs \X ChannelConfigs \X ChannelConfigs}
\* the keys a schema is asked for
SchemaKeys ==
    {[kind |-> "None", fcid |-> 0, addr |-> 0, inp |-> 0], get_key(1, 1, 0),
     DerivedKey("fsp_event", get_key(1, 0, 0)), DerivedKey("fsp_config", get_key(1, 0, 0))}

InitSchema ==
    /\ EmptyLibrary /\ expand = NoExpand /\ NoStreams /\ NoAside
    /\ \E header \in OrcaHeaders :
          orca = [NoOrca EXCEPT !.sess[1].made = TRUE, !.sess[1].header = header]
NextSchema ==
    \/ \E cc \in ChannelDicts : LLAMAEventDecoder_set_channel_configs(cc)
    \/ LLAMAEventDecoder_get_key_lists
    \/ \E key \in {-1} \cup Keys : LLAMAEventDecoder_get_decoded_values(key)
    \/ ORFCIO_set_header(1) /\ orca'.last.dec = "ORFCIOEventDecoder"
    \/ \E key \in SchemaKeys : ORFCIOEventDecoder_get_decoded_values(1, key)
SpecSchema == InitSchema /\ [][NextSchema]_vars

\* ------------------------------------------------ DataDecoder.make_lgdo
\* The attributes of one field of decoded_values.  An absent attribute is
\* "" (strings), 0 (lengths), FALSE (wf_units: t0_units, dt and dt_units
\* together) or [given |-> FALSE, ...] (the two dicts of storage hints, whose
\* keys are sub-field names).
SubFields == <<"values", "t0", "dt">>
NoHint == [given |-> FALSE, on |-> {}]
Hint(on) == [given |-> TRUE, on |-> on]
NoAttrs ==
    [dtype |-> "", datatype |-> "", kind |-> "", units |-> "", wf_units |-> FALSE,
     wf_len |-> 0, length |-> 0, length_guess |-> 0,
     compression |-> NoHint, hdf5_settings |-> NoHint]
NoColumn ==
    [name |-> "", lgdo |-> "", rows |-> 0, width |-> 0, dtype |-> "", hints |-> {},
     attrs |-> NoAttrs]

\* dtypeutils.datatype(datatype): the LGDO type a datatype string names
datatype(s) ==
    IF s = "array_of_equalsized_arrays<1,1>{real}" THEN "ArrayOfEqualSizedArrays"
    ELSE IF s = "array<1>{array<1>{real}}" THEN "VectorOfVectors"
    ELSE "Scalar"

\* (mutant) a hint given for any sub-field is attached to all of them
AttachHints_all(settings) ==
    {p \in Range(SubFields) \X DOMAIN settings : settings[p[2]] # {}}

\* "for el in ['values', 't0', 'dt']: for settings_name in ...: if el in
\* settings[settings_name]": the (sub-field, hint) pairs attached
AttachHints(settings) ==
    {p \in Range(SubFields) \X DOMAIN settings : p[1] \in settings[p[2]]}

\* the body of the loop over the fields for one field: the exception raised
\* (or None), the column added, and attrs as the pops leave it
MakeField(field, fld_attrs, size) ==
    LET Fail(x, a) == [exc |-> x, col |-> NoColumn, attrs |-> a]
        Col(t, w, h, a) ==
            [exc |-> None,
             col |-> [name |-> field, lgdo |-> t, rows |-> size, width |-> w,
                      dtype |-> fld_attrs.dtype, hints |-> h, attrs |-> a],
             attrs |-> a]
        a1 == [fld_attrs EXCEPT !.dtype = ""]
        a2 == [a1 EXCEPT !.datatype = ""]
    IN
    IF fld_attrs.dtype = "" THEN Fail("AttributeError", fld_attrs)
    ELSE IF a1.datatype = ""
    THEN Col("Array", 0, {},
             IF a1.kind # "" THEN [a1 EXCEPT !.datatype = "array<1>{kind}", !.kind = ""]
             ELSE a1)
    ELSE IF a1.datatype = "waveform"
    THEN IF ~a2.wf_units THEN Fail("KeyError", a2)
         ELSE IF a2.wf_len = 0 THEN Fail("KeyError", [a2 EXCEPT !.wf_units = FALSE])
         ELSE LET settings == [compression |-> a2.compression.on,
                               hdf5_settings |-> a2.hdf5_settings.on]
              IN Col("WaveformTable", a2.wf_len, AttachHints(settings),
                     [a2 EXCEPT !.wf_units = FALSE, !.wf_len = 0,
                                !.compression = NoHint, !.hdf5_settings = NoHint])
    ELSE IF datatype(a1.datatype) = "ArrayOfEqualSizedArrays"
    THEN IF a2.length = 0 THEN Fail("KeyError", a2)
         ELSE Col("ArrayOfEqualSizedArrays", a2.length, {}, [a2 EXCEPT !.length = 0])
    ELSE IF datatype(a1.datatype) = "VectorOfVectors"
    THEN Col("VectorOfVectors", IF a2.length_guess # 0 THEN a2.length_guess ELSE size, {},
             [a2 EXCEPT !.length_guess = 0])
    ELSE Fail("RuntimeError", a2)

\* (mutant) the pops are made on the schema's own dict
AfterField_no_copy(fld_attrs, out) == out.attrs

\* "attrs = fld_attrs.copy()": what the schema holds for the field after the
\* loop body, the pops being made on the copy
AfterField(fld_attrs, out) == fld_attrs

\* "for field, fld_attrs in dec_vals.items()" from field i on
RECURSIVE MakeFields(_, _, _, _)
MakeFields(dec_vals, i, size, tbl) ==
    IF i > Len(dec_vals) THEN [exc |-> None, table |-> tbl, schema |-> dec_vals]
    ELSE LET out == MakeField(dec_vals[i].field, dec_vals[i].attrs, size)
             after == [dec_vals EXCEPT ![i].attrs = AfterField(dec_vals[i].attrs, out)]
         IN IF out.exc # None THEN [exc |-> out.exc, table |-> <<>>, schema |-> after]
            ELSE MakeFields(after, i + 1, size, Append(tbl, out.col))

\* make_lgdo(key=None, size) of a DataDecoder that has decoded_values or not
make_lgdo(has, decoded_values, size) ==
    IF ~has THEN [exc |-> "AttributeError", table |-> <<>>, schema |-> decoded_values]
    ELSE MakeFields(decoded_values, 1, size, <<>>)

DataDecoder_make_lgdo ==
    LET out == make_lgdo(mk.has, mk.decoded_values, mk.size) IN
    /\ mk.size > 0
    /\ mk.calls < 2
    /\ mk' = [mk EXCEPT !.decoded_values = out.schema, !.calls = @ + 1,
                        !.before = mk.decoded_values, !.exc = out.exc,
                        !.table = out.table,
                        !.first = IF mk.calls = 0 THEN <<[exc |-> out.exc, table |-> out.table]>>
                                  ELSE @]
    /\ Returns(IF out.exc = None THEN Ret("make_lgdo", -1, <<>>, 0, "return", "Table")
               ELSE Ret("make_lgdo", -1, <<>>, 0, "raise", out.exc))
    /\ UNCHANGED <<orca, llama, ls>>

\* the fields of the schemas given: flat arrays (with units, with a kind,
\* without dtype), waveforms with and without storage hints or lengths,
\* fixed-width and ragged arrays, and a datatype make_lgdo does not support
Flat == [NoAttrs EXCEPT !.dtype = "uint32"]
Waveform(c, h) ==
    [NoAttrs EXCEPT !.dtype = "uint16", !.datatype = "waveform", !.wf_units = TRUE,
                    !.wf_len = 3, !.compression = c, !.hdf5_settings = h]
FieldAttrs ==
    {Flat, [Flat EXCEPT !.units = "adc"], [Flat EXCEPT !.kind = "flag"],
     [Flat EXCEPT !.dtype = ""],
     [Flat EXCEPT !.datatype = "array_of_equalsized_arrays<1,1>{real}", !.length = 2],
     [Flat EXCEPT !.datatype = "array_of_equalsized_arrays<1,1>{real}"],
     [Flat EXCEPT !.datatype = "array<1>{array<1>{real}}"],
     [Flat EXCEPT !.datatype = "array<1>{array<1>{real}}", !.length_guess = 3],
     [Flat EXCEPT !.datatype = "real"],
     [Waveform(NoHint, NoHint) EXCEPT !.wf_len = 0],
     [Waveform(NoHint, NoHint) EXCEPT !.dtype = ""]}
    \cup {Waveform(c, h) : c \in {NoHint, Hint({}), Hint({"values"}), Hint({"t0", "dt"})},
                           h \in {NoHint, Hint({"values"}), Hint({"dt"})}}
Schemas ==
    {<<>>} \cup {<<[field |-> "a", attrs |-> a]>> : a \in FieldAttrs}
    \cup {<<[field |-> "a", attrs |-> a[1]], [field |-> "b", attrs |-> a[2]]>> :
            a \in FieldAttrs \X FieldAttrs}
Sizes == {1, 2}

InitMake ==
    /\ EmptyLibrary /\ expand = NoExpand /\ NoStreams
    /\ orca = NoOrca /\ llama = NoLlama /\ ls = NoLs /\ cells = NoCells /\ ragged = NoRagged
    /\ threads = NoThreads
    /\ \E has \in BOOLEAN, schema \in Schemas, size \in Sizes :
          /\ ~has => schema = <<>>
          /\ mk = [NoMk EXCEPT !.has = has, !.decoded_values = schema, !.size = size]
NextMake == DataDecoder_make_lgdo
SpecMake == InitMake /\ [][NextMake]_vars

\* ------------------------------------------------ LLAMA: the streamer
\* __decode_channelConfigs from configuration i on: the exception (or None),
\* channel_configs and the bytes read
RECURSIVE decode_channelConfigs(_, _, _, _)
decode_channelConfigs(file, number_chOpen, i, configs) ==
    IF i > number_chOpen
    THEN [exc |-> None, configs |-> configs, n_bytes_read |-> (i - 1) * EconfLength]
    ELSE IF file.channels[i] \in configs
    THEN [exc |-> "RuntimeError", configs |-> configs, n_bytes_read |-> i * EconfLength]
    ELSE decode_channelConfigs(file, number_chOpen, i + 1, configs \cup {file.channels[i]})

\* LLAMAHeaderDecoder.decode_header(f_in) on the streamer and header decoder
\* s: the exception (or None), what it leaves of s, and the bytes it reports
decode_header(s, file) ==
    LET magic_ok == evt_data_16(file, 0) = MagicLo /\ evt_data_16(file, 1) = MagicHi
        s1 == [s EXCEPT !.version_major = evt_data_16(file, 4),
                        !.version_minor = evt_data_16(file, 3),
                        !.version_patch = evt_data_16(file, 2),
                        !.length_econf = evt_data_16(file, 5),
                        !.number_chOpen = evt_data_32(file, 3)]
        cc == decode_channelConfigs(file, s1.number_chOpen, 1, {})
        s2 == [s1 EXCEPT !.has_configs = TRUE, !.channel_configs = cc.configs]
    IN
    IF ~magic_ok THEN [exc |-> "RuntimeError", s |-> s, n_bytes_read |-> 0]
    ELSE IF s1.length_econf # EconfLength
    THEN [exc |-> "RuntimeError", s |-> [s1 EXCEPT !.has_configs = TRUE], n_bytes_read |-> 0]
    ELSE IF cc.exc # None THEN [exc |-> cc.exc, s |-> s2, n_bytes_read |-> 0]
    \* "print(self.channel_configs[0][0]['MAW3_offset'])"
    ELSE IF <<0, 0>> \notin cc.configs THEN [exc |-> "KeyError", s |-> s2, n_bytes_read |-> 0]
    ELSE [exc |-> None, s |-> s2, n_bytes_read |-> HeaderBytes + cc.n_bytes_read]

\* DataStreamer.open_stream: sets up the buffers of the decoders and leaves
\* the input stream and the byte count as they are
DataStreamer_open_stream(s) == s

\* LLAMAStreamer.open_stream(llama_filename)
LLAMAStreamer_open_stream(file) ==
    LET op == "LLAMAStreamer.open_stream"
        s0 == [ls EXCEPT !.opens = @ + 1, !.was_open = ls.in_stream, !.file = file]
        s1 == [s0 EXCEPT !.in_stream = TRUE, !.n_bytes_read = 0]
        out == decode_header(s1, file)
    IN
    /\ ls.opens < 2
    /\ IF ls.in_stream
       THEN /\ ls' = s0
            /\ Returns(Ret(op, -1, <<>>, 0, "raise", "RuntimeError"))
       ELSE IF out.exc # None
       THEN /\ ls' = out.s
            /\ Returns(Ret(op, -1, <<>>, 0, "raise", out.exc))
       ELSE /\ ls' = DataStreamer_open_stream([out.s EXCEPT !.n_bytes_read = @ + out.n_bytes_read])
            /\ Returns(Ret(op, -1, <<>>, 0, "return", "None"))
    /\ UNCHANGED <<orca, llama, mk>>

LLAMAStreamer_close_stream_stays_open ==
    LET op == "LLAMAStreamer.close_stream" IN
    /\ ret.op # op
    /\ IF ~ls.in_stream
       THEN /\ ls' = ls
            /\ Returns(Ret(op, -1, <<>>, 0, "raise", "RuntimeError"))
       ELSE /\ ls' = ls
            /\ Returns(Ret(op, -1, <<>>, 0, "return", "None"))
    /\ UNCHANGED <<orca, llama, mk>>
\* LLAMAStreamer.close_stream()
LLAMAStreamer_close_stream ==
    LET op == "LLAMAStreamer.close_stream" IN
    /\ ret.op # op
    /\ IF ~ls.in_stream
       THEN /\ ls' = ls
            /\ Returns(Ret(op, -1, <<>>, 0, "raise", "RuntimeError"))
       ELSE /\ ls' = [ls EXCEPT !.in_stream = FALSE]
            /\ Returns(Ret(op, -1, <<>>, 0, "return", "None"))
    /\ UNCHANGED <<orca, llama, mk>>

\* the files opened: right and wrong magic bytes, versions 2.0.0 and 3.2.1, configuration
\* lengths 88 and 80, and up to two channel configurations of FADC 0 or 1,
\* channel 0 or 1, as many as the header announces
ChannelIds == (0..1) \X (0..1)
ChannelLists == {<<>>} \cup {<<c>> : c \in ChannelIds} \cup {<<c, e>> : c, e \in ChannelIds}
LlamaFiles ==
    {LlamaFile(<<MagicLo, hi, v[1], v[2], v[3], econf, Len(ch), 0>>, ch) :
        hi \in {MagicHi, 0}, v \in {<<0, 0, 2>>, <<1, 2, 3>>},
        econf \in {EconfLength, 80}, ch \in ChannelLists}
\* a file this version of the decoder is written for
WellFormedFile(file) ==
    /\ evt_data_16(file, 0) = MagicLo /\ evt_data_16(file, 1) = MagicHi
    /\ evt_data_16(file, 5) = EconfLength
    /\ evt_data_32(file, 3) = Len(file.channels)
    /\ \A i, j \in DOMAIN file.channels : file.channels[i] = file.channels[j] => i = j

InitStreamer ==
    /\ EmptyLibrary /\ expand = NoExpand /\ NoStreams
    /\ orca = NoOrca /\ llama = NoLlama /\ mk = NoMk /\ ls = NoLs /\ cells = NoCells
    /\ ragged = NoRagged /\ threads = NoThreads
NextStreamer ==
    \/ \E file \in LlamaFiles : LLAMAStreamer_open_stream(file)
    \/ LLAMAStreamer_close_stream
SpecStreamer == InitStreamer /\ [][NextStreamer]_vars

\* ================================================================== claims
DecodeOps ==
    {"LLAMAEventDecoder.decode_packet", "FSPEventDecoder.decode_packet",
     "FSPStatusDecoder.decode_packet"}

\* the buffers of each list have pairwise disjoint key lists
DisjointKeyLists ==
    \A n \in ListNames : \A i, j \in DOMAIN rb_lib[n] :
        i # j => Range(key_list[rb_lib[n][i]]) \cap Range(key_list[rb_lib[n][j]]) = {}

\* did the last call find row loc free in the buffer it looked up?
HadRoom == ret.rb # 0 /\ lgdo[ret.rb].has /\ old_loc[ret.rb] < lgdo[ret.rb].size

\* was the last call a decode_packet of a well-formed packet?
WellFormedCall ==
    /\ ret.op \in DecodeOps
    /\ ret.op = "LLAMAEventDecoder.decode_packet" => packet \in FormatPackets

\* C1: with pairwise disjoint key lists, each buffer's loc equals the number
\* of well-formed packets presented for the keys of its key_list since its
\* last cursor reset (no row lost, duplicated or written to another buffer).
C1_LocCountsRoutedPackets ==
    DisjointKeyLists => \A b \in Bufs : loc[b] = decoded[b]

\* C1 witness: two keys share buffer 1, a third fills buffer 2
C1_Witness ==
    /\ DisjointKeyLists
    /\ key_list[1] = <<0, 1>>
    /\ loc[1] = 2 /\ decoded[1] = 2
    /\ loc[2] = 1 /\ decoded[2] = 1
    /\ ret.op = "LLAMAEventDecoder.decode_packet"

C3_LocWithinCapacity ==
    /\ \A b \in Bufs : 0 <= loc[b] /\ loc[b] <= len(lgdo[b])
    /\ \A w \in wrote : 0 <= w[2] /\ w[2] < len(lgdo[w[1]])

\* C3 witness: a well-formed packet presented for a buffer that is filled to
\* capacity and was not flushed
C3_Witness ==
    /\ WellFormedCall
    /\ ret.rb # 0
    /\ lgdo[ret.rb].has
    /\ old_loc[ret.rb] = lgdo[ret.rb].size
    /\ ret.kind = "raise"
\* the last call was a decode_packet that wrote a row into buffer b
DecodedInto(b) == ret.op \in DecodeOps /\ ret.kind = "return" /\ ret.rb = b

\* C4 (as stated): for 1 <= s <= C, once exactly C - s rows have been written
\* into a buffer that started at loc = 0, is_full() reports true.
C4_FullAfterCapMinusSafetyRows ==
    \A b \in Bufs :
        ( /\ DecodedInto(b)
          /\ 1 <= fill_safety[b] /\ fill_safety[b] <= lgdo[b].size
          /\ loc[b] = lgdo[b].size - fill_safety[b] )
        => (IsFull(b) /\ ret.val = "True")

\* C4 (amended): for 1 <= s <= C, is_full() reports false while at most C - s
\* rows have been written and true once C - s + 1 rows have been written;
\* the decode_packet call that writes a row returns just that.
C4_FullAfterOneMoreRow ==
    \A b \in Bufs :
        (lgdo[b].has /\ 1 <= fill_safety[b] /\ fill_safety[b] <= lgdo[b].size) =>
            /\ loc[b] <= lgdo[b].size - fill_safety[b] => ~IsFull(b)
            /\ loc[b] = lgdo[b].size - fill_safety[b] + 1 => IsFull(b)
            /\ DecodedInto(b) =>
                (ret.val = "True" <=> loc[b] >= lgdo[b].size - fill_safety[b] + 1)

\* C4 witness: the row number C - s + 1 has just been written and the call
\* returned True
C4_Witness ==
    \E b \in Bufs :
        /\ DecodedInto(b)
        /\ fill_safety[b] <= lgdo[b].size
        /\ old_loc[b] = lgdo[b].size - fill_safety[b]
        /\ loc[b] = old_loc[b] + 1
        /\ ret.val = "True"

C6_ClearFullResetsExactlyFull ==
    [][ ret'.op \in {"RawBufferList.clear_full", "RawBufferLibrary.clear_full"} =>
          LET S == IF ret'.op = "RawBufferList.clear_full" THEN Range(ret'.bufs)
                   ELSE UNION {Range(rb_lib[n]) : n \in ListNames}
          IN
          /\ \A b \in Bufs :
                loc'[b] = IF b \in S /\ (len(lgdo[b]) - loc[b] < fill_safety[b])
                          THEN 0 ELSE loc[b]
          /\ UNCHANGED <<rb_lib, lgdo, key_list, out_stream, proc_spec, fill_safety,
                         keyed_dict>>
      ]_vars

\* C6 witness: a list's clear_full has reset one buffer and kept the rows of
\* another, with the key index already cached
C6_Witness ==
    /\ ret.op = "RawBufferList.clear_full"
    /\ \E b1 \in Range(ret.bufs), b2 \in Bufs :
        /\ old_loc[b1] > 0 /\ loc[b1] = 0
        /\ old_loc[b2] > 0 /\ loc[b2] = old_loc[b2]
    /\ \E n \in ListNames : keyed_dict[n].built

\* the text of an out_stream before its first ":" (all of it without ":")
RECURSIVE BeforeColon(_)
BeforeColon(s) ==
    IF s = <<>> THEN <<>>
    ELSE IF Head(s) = ":" THEN <<>>
    ELSE <<Head(s)>> \o BeforeColon(Tail(s))

\* C7: write_to_lh5_and_clear issues, for every given buffer with a table
\* and loc > 0, exactly one store write of loc rows - none when the file part
\* of out_stream is empty - and sets its loc to 0; any other buffer causes no
\* write and keeps its loc.
C7_WriteLocRowsThenClear ==
    ret.op = "write_to_lh5_and_clear" =>
        \A b \in Bufs :
            LET mine == {i \in DOMAIN store_writes : store_writes[i].out_name = b} IN
            IF b \in Range(ret.bufs) /\ lgdo[b].has /\ old_loc[b] > 0
            THEN /\ loc[b] = 0
                 /\ Cardinality(mine) = IF BeforeColon(out_stream[b]) # <<>> THEN 1 ELSE 0
                 /\ \A i \in mine : store_writes[i].n_rows = old_loc[b]
            ELSE /\ loc[b] = old_loc[b]
                 /\ mine = {}

\* C7 witness: two buffers flushed in one call, one written and one whose
\* out_stream has no file part, each reset
C7_Witness ==
    /\ ret.op = "write_to_lh5_and_clear"
    /\ ret.bufs = <<1, 2>>
    /\ old_loc[1] = 2 /\ old_loc[2] = 1
    /\ loc = <<0, 0>>
    /\ BeforeColon(out_stream[1]) = <<>>
    /\ Len(store_writes) = 1 /\ store_writes[1].n_rows = 1
\* the (0-based) 32-bit index of the first trailer word: the two header words
\* and the optional sub-records of 7, 2, 3 and 2 words precede it
TrailerIndex(pkt) ==
    LET fmt == pkt[1].lo % 16 IN
    2 + (IF fmt % 2 = 1 THEN 7 ELSE 0) + (IF (fmt \div 2) % 2 = 1 THEN 2 ELSE 0)
      + (IF (fmt \div 4) % 2 = 1 THEN 3 ELSE 0) + (IF (fmt \div 8) % 2 = 1 THEN 2 ELSE 0)
TopNibble(w) == w.hi \div 4096
HasTrailer(pkt) ==
    /\ Len(pkt) > TrailerIndex(pkt)
    /\ TopNibble(pkt[TrailerIndex(pkt) + 1]) = 10 => Len(pkt) > TrailerIndex(pkt) + 1
\* the top nibble of the first trailer word is neither 0xE nor 0xA
BadFirstTag(pkt) == TopNibble(pkt[TrailerIndex(pkt) + 1]) \notin {14, 10}
\* averaged data is announced and the second trailer word's nibble is not 0xE
BadSecondTag(pkt) ==
    /\ TopNibble(pkt[TrailerIndex(pkt) + 1]) = 10
    /\ TopNibble(pkt[TrailerIndex(pkt) + 2]) # 14
\* 2*raw_count + 2*avg_count differs from the 16-bit words left after the
\* header and the trailer words
CountMismatch(pkt) ==
    LET t == TrailerIndex(pkt)
        w == pkt[t + 1]
        avg == TopNibble(w) = 10
        raw_count == (w.hi % 1024) * 65536 + w.lo
        avg_count == IF avg THEN pkt[t + 2].lo ELSE 0
        remaining_16 == 2 * (Len(pkt) - t - (IF avg THEN 2 ELSE 1))
    IN TopNibble(w) \in {14, 10} /\ 2 * raw_count + 2 * avg_count # remaining_16
Corrupt(pkt) ==
    HasTrailer(pkt) /\ (BadFirstTag(pkt) \/ BadSecondTag(pkt) \/ CountMismatch(pkt))

\* C8: a packet whose first trailer nibble is neither 0xE nor 0xA, or whose
\* second trailer nibble is not 0xE when averaged data is announced, or whose
\* doubled sample counts differ from the remaining 16-bit words, is rejected
\* by LLAMAEventDecoder.decode_packet with an exception and the loc of every
\* buffer is left unchanged.
C8_CorruptPacketRejected ==
    (ret.op = "LLAMAEventDecoder.decode_packet" /\ Corrupt(packet)) =>
        /\ ret.kind = "raise"
        /\ loc = old_loc

\* C8 witness: a packet with rows already in both buffers is rejected for a
\* sample-count mismatch alone (both tags are valid)
C8_Witness ==
    /\ ret.op = "LLAMAEventDecoder.decode_packet"
    /\ HasTrailer(packet) /\ CountMismatch(packet)
    /\ ~BadFirstTag(packet) /\ ~BadSecondTag(packet)
    /\ TopNibble(packet[TrailerIndex(packet) + 1]) = 10
    /\ ret.rb # 0 /\ ret.kind = "raise" /\ ret.val = "RuntimeError"
    /\ \A b \in Bufs : loc[b] = 1 /\ old_loc[b] = 1
\* C9: a packet found corrupt while it is decoded into a buffer raises no
\* error to the caller of decode_packet, and its rejection is recorded by the
\* skip counter of its key or by a record in the garbage table.
C9_CorruptPacketIsolated ==
    (ret.op = "LLAMAEventDecoder.decode_packet" /\ ret.rb # 0 /\ Corrupt(packet)) =>
        /\ ret.kind = "return"
        /\ skipped_channels[ret.key] > 0 \/ garbage_loc > 0

\* the decoder a decode_packet call belongs to, and the skip count it keeps
\* for a key (only LLAMAEventDecoder has one)
DecoderOf(op) ==
    IF op = "LLAMAEventDecoder.decode_packet" THEN "LLAMAEventDecoder"
    ELSE IF op = "FSPEventDecoder.decode_packet" THEN "FSPEventDecoder"
    ELSE "FSPStatusDecoder"
SkipCount(name, k) == IF name = "LLAMAEventDecoder" THEN skipped_channels[k] ELSE 0

\* C10: a packet whose key has no buffer in the key index is skipped by each
\* decoder: decode_packet returns False without raising, no loc and no row is
\* modified, and the skip count of the key equals the number of packets
\* presented for it.
C10_UnroutedKeySkipped ==
    (ret.op \in DecodeOps /\ ret.rb = 0) =>
        /\ ret.kind = "return" /\ ret.val = "False"
        /\ loc = old_loc /\ wrote = {}
        /\ SkipCount(DecoderOf(ret.op), ret.key) = presented[DecoderOf(ret.op)][ret.key]
\* C11: every put_in_garbage call stores its record in row garbage_table.loc
\* and advances the garbage cursor by one, so n calls leave n records.
C11_GarbageRecordPerCall ==
    [][ ret'.op = "put_in_garbage" =>
            (ret'.kind = "return" /\ garbage_loc' = garbage_loc + 1) ]_vars

\* do two different buffers of the list name a common key?
DuplicateKey(name) ==
    \E i, j \in DOMAIN rb_lib[name] :
        i # j /\ Range(key_list[rb_lib[name][i]]) \cap Range(key_list[rb_lib[name][j]]) # {}

\* C12: a list in which one key occurs in the key lists of two buffers is
\* rejected at the latest when its key index is built: no index exists for
\* it and no packet is decoded through it.
C12_DuplicateKeyRejected ==
    \A name \in ListNames :
        DuplicateKey(name) =>
            /\ ~keyed_dict[name].built
            /\ ret.op \in DecodeOps /\ DecoderOf(ret.op) = name => ret.kind = "raise"
\* does index d map exactly the keys of the list's current key lists, each to
\* a buffer of the list whose key_list contains it?
IndexesCurrentLists(name, d) ==
    \A k \in Keys :
        /\ d[k] # 0 <=> \E b \in Range(rb_lib[name]) : k \in Range(key_list[b])
        /\ d[k] # 0 => d[k] \in Range(rb_lib[name]) /\ k \in Range(key_list[d[k]])

\* C13 (as stated): once get_keyed_dict has been called on a list, the index
\* it returns maps exactly the keys of the current key lists of the buffers
\* currently in the list, whatever set_from_dict calls came after.
C13_IndexFollowsList ==
    \A name \in ListNames :
        keyed_dict[name].built => IndexesCurrentLists(name, keyed_dict[name].map)

\* C13 (amended): the first get_keyed_dict call indexes exactly the keys of
\* the buffers then in the list, and every later call returns that same
\* index: buffers appended afterwards are not in it.
C13_IndexIsFirstBuild ==
    [][ \A name \in ListNames :
          /\ keyed_dict[name].built => keyed_dict'[name] = keyed_dict[name]
          /\ (~keyed_dict[name].built /\ keyed_dict'[name].built) =>
                /\ rb_lib'[name] = rb_lib[name] /\ key_list' = key_list
                /\ IndexesCurrentLists(name, keyed_dict'[name].map)
      ]_vars

\* C13 witness: get_keyed_dict has just returned an index built before a
\* buffer was appended, without the appended buffer's key
C13_Witness ==
    /\ ret.op = "RawBufferList.get_keyed_dict"
    /\ keyed_dict[ret.val].built
    /\ Len(rb_lib[ret.val]) = 2
    /\ \E k \in Keys :
        /\ keyed_dict[ret.val].map[k] = 0
        /\ k \in Range(key_list[rb_lib[ret.val][2]])
    /\ \E k \in Keys : keyed_dict[ret.val].map[k] = rb_lib[ret.val][1]
\* the expansion of a key_list: every range [a, b] replaced, in place, by a..b
RECURSIVE Expanded(_)
Expanded(kl) ==
    IF kl = <<>> THEN <<>>
    ELSE (IF Head(kl).t = "range"
          THEN [k \in 1..(Head(kl).b - Head(kl).a + 1) |-> KeyEntry(Head(kl).a + k - 1)]
          ELSE <<Head(kl)>>)
         \o Expanded(Tail(kl))
ProperRanges(kl) == \A j \in DOMAIN kl : kl[j].t = "range" => kl[j].a <= kl[j].b
MalformedRange(kl) == \E j \in DOMAIN kl : kl[j].t = "range" /\ kl[j].b < kl[j].a
NoRange(kl) == \A j \in DOMAIN kl : kl[j].t # "range"
\* the while loop over the current name's key_list has just ended
RangesDone == expand.pc = "while" /\ expand.i >= Len(cur_info.key_list)

\* C14: when the expansion loop ends on a key_list whose ranges [a, b] all
\* have a <= b, the key_list is the original with every range replaced in
\* place by a, a+1, ..., b, the other entries kept in order, and no range is
\* left; a buffer with a plain name has that key_list when the call returns.
C14_RangesExpandedInPlace ==
    /\ (RangesDone /\ ProperRanges(expand.key_list0)) =>
            /\ cur_info.key_list = Expanded(expand.key_list0)
            /\ NoRange(cur_info.key_list)
            /\ expand.i = Len(cur_info.key_list)
    /\ ( /\ expand.pc = "return" /\ Len(expand.input) = 1
         /\ "{key}" \notin Range(expand.input[1].name)
         /\ ProperRanges(expand.input[1].info.key_list) ) =>
            /\ Len(expand.config) = 1
            /\ expand.config[1].info.key_list = Expanded(expand.input[1].info.key_list)

\* C14 witness: two ranges around a single key have been expanded
C14_Witness ==
    /\ RangesDone
    /\ expand.key_list0 = <<RangeEntry(0, 1), KeyEntry(2), RangeEntry(1, 2)>>
    /\ cur_info.key_list = <<KeyEntry(0), KeyEntry(1), KeyEntry(2), KeyEntry(1), KeyEntry(2)>>

\* C15: a key_list with a range [a, b], b < a, makes expand_rblist_dict fail
\* at setup: the call never returns normally and the expansion loop never
\* stands at a negative index.
C15_MalformedRangeRejected ==
    (\E j \in DOMAIN expand.input :
        /\ expand.input[j].info.has_key_list
        /\ MalformedRange(expand.input[j].info.key_list)) =>
            /\ expand.pc # "return"
            /\ expand.i >= 0

\* what the template entry e yields for key k
Yield(e, k) ==
    LET nm == NameFormat(e.name, k) IN
    Entry(nm, [e.info EXCEPT
                 !.key_list = <<k>>,
                 !.out_stream =
                    IF e.info.has_out_stream
                    THEN Format(e.info.out_stream,
                                [has_key |-> TRUE, key |-> k, has_name |-> TRUE, name |-> nm])
                    ELSE e.info.out_stream])

\* C16: when the call returns, every input entry whose name holds {key} and
\* whose expanded key_list is not the wildcard has been replaced by one entry
\* per key: named by the template formatted with the key, with key_list
\* [key], the template's proc_spec and the template's out_stream formatted
\* for that key and name; the template entry itself is gone.
C16_TemplateYieldsOneEntryPerKey ==
    expand.pc = "return" =>
        \A j \in DOMAIN expand.input :
            LET e == expand.input[j]
                kl == Expanded(e.info.key_list)
                made == {c \in DOMAIN expand.config :
                            \E k \in Range(kl) : expand.config[c].name = NameFormat(e.name, k)}
            IN
            ("{key}" \in Range(e.name) /\ ProperRanges(e.info.key_list) /\ ~IsWildcard(kl)) =>
                /\ ~Has(expand.config, e.name)
                /\ Cardinality(made) = Cardinality(Range(kl))
                /\ \A k \in Range(kl) : \E c \in made : expand.config[c] = Yield(e, k)

\* C16 witness: a template with a range and a single key has become three
\* buffers
C16_Witness ==
    /\ expand.pc = "return"
    /\ Len(expand.input) = 1
    /\ expand.input[1].name = <<"ch", "{key}">>
    /\ expand.input[1].info.key_list = <<RangeEntry(0, 1), KeyEntry(2)>>
    /\ [c \in DOMAIN expand.config |-> expand.config[c].name]
            = << <<"ch", "0">>, <<"ch", "1">>, <<"ch", "2">> >>
    /\ expand.config[3].info.key_list = <<KeyEntry(2)>>
    /\ expand.config[3].info.out_stream = <<"f", ":", "ch", "2">>

\* the last call was a LLAMAEventDecoder.decode_packet that found a row to fill
LLAMADecoded ==
    ret.op = "LLAMAEventDecoder.decode_packet" /\ packet # <<>> /\ HadRoom
\* the format selector of a packet: word 0 modulo 16
Selector(pkt) == (pkt[1].hi * TwoP16 + pkt[1].lo) % 16

\* C17: for each of the 16 format selectors with bits b0..b3 the first trailer
\* word is read at word offset 2 + 7*b0 + 2*b1 + 3*b2 + 2*b3 (so a packet laid
\* out that way is accepted when its trace lengths fit the table), and on
\* every accepted packet, and on every packet that passed the sample-count
\* check, the final offset after the sample data equals the payload length in
\* 32-bit words.
C17_TrailerOffsetAndFinalOffset ==
    LLAMADecoded =>
        /\ Offset4(format_bits(packet)) = TrailerIndex(packet)
        /\ packet \in FormatPackets => ret.val # "RuntimeError"
        /\ ret.kind = "return" => final_offset(packet) = Len(packet)
        /\ ParsedPackets[packet].exc = None => final_offset(packet) = Len(packet)
C17_Witness ==
    /\ LLAMADecoded
    /\ ret.kind = "return"
    /\ Selector(packet) = 13
    /\ TrailerIndex(packet) = 14
    /\ "auxwaveform" \in {w[3] : w \in wrote}
    /\ Len(packet) = 18

\* the fields of the four optional sub-records, by format bit
SubRecord(k) ==
    IF k = 0 THEN {"peakHighValue", "peakHighIndex", "information", "accSum1", "accSum2",
                   "accSum3", "accSum4", "accSum5", "accSum6"}
    ELSE IF k = 1 THEN {"accSum7", "accSum8"}
    ELSE IF k = 2 THEN {"mawMax", "mawBefore", "mawAfter"}
    ELSE {"startEnergy", "maxEnergy"}
Written == {w[3] : w \in wrote}

\* C18: decode_packet writes the fields of an optional sub-record (peak and
\* accumulators 1-6; accumulators 7-8; MAW max/before/after; start/max energy)
\* at row loc if and only if the corresponding bit 0..3 of the packet's format
\* selector is set; with format selector 0 it writes only packet_id, fch_id,
\* timestamp and the (raw and averaged) waveform samples.
C18_OptionalFieldsFollowFormatBits ==
    LLAMADecoded =>
        /\ \A w \in wrote : w[1] = ret.rb /\ w[2] = old_loc[ret.rb]
        /\ \A k \in 0..3 :
              IF Bit(Selector(packet), k) = 1
              THEN SubRecord(k) \subseteq Written
              ELSE SubRecord(k) \cap Written = {}
        /\ Selector(packet) = 0 =>
              /\ {"packet_id", "fch_id", "timestamp"} \subseteq Written
              /\ Written \subseteq {"packet_id", "fch_id", "timestamp", "waveform", "auxwaveform"}
C18_Witness ==
    /\ LLAMADecoded
    /\ ret.kind = "return"
    /\ Selector(packet) = 5
    /\ SubRecord(0) \cup SubRecord(2) \subseteq Written
    /\ (SubRecord(1) \cup SubRecord(3)) \cap Written = {}
    /\ "waveform" \in Written

\* C19: the timestamp stored by decode_packet equals
\* (w0 div 2^16) * 2^32 + w1 for the header words w0 and w1, no bit of the
\* shifted high part lost (written here as the three 16-bit limbs w0 div 2^16,
\* w1 div 2^16 and w1 mod 2^16), and the format selector used is w0 mod 16.
C19_TimestampKeepsHighBits ==
    (LLAMADecoded /\ row.written) =>
        /\ row.timestamp = <<packet[1].hi, packet[2].hi, packet[2].lo>>
        /\ row.format_bits = Selector(packet)

\* C20: for any sequence of get_fcio_stream calls, calls with the same stream
\* id return the same reader instance, calls with different stream ids return
\* different instances, and the reader of a stream id is never replaced or
\* removed once created: it is still the registry's entry for that id.
C20_OneReaderPerStreamId ==
    /\ \A i, j \in DOMAIN fcio_returned :
          (fcio_returned[i][1] = fcio_returned[j][1])
              <=> (fcio_returned[i][2] = fcio_returned[j][2])
    /\ \A i \in DOMAIN fcio_returned :
          /\ fcio_returned[i][2] # 0
          /\ fcio_stream_library[fcio_returned[i][1]] = fcio_returned[i][2]
C20_Witness ==
    /\ ret.op = "get_fcio_stream"
    /\ Len(fcio_returned) = 3
    /\ fcio_returned[1][1] = 2 /\ fcio_returned[2][1] = 1 /\ fcio_returned[3][1] = 2
    /\ fcio_returned[3][2] = fcio_returned[1][2]
    /\ fcio_returned[2][2] # fcio_returned[1][2]

\* the keys C24 names for a listener of the header
ListenerKeys(n, l) ==
    IF n = "ORFCIOStatusDecoder"
    THEN {get_status_key(l.fcid, 0)}
         \cup {get_status_key(l.fcid, CardReqId + j - 1) : j \in 1..Len(l.cards)}
    ELSE IF n = "ORFCIOEventDecoder"
    THEN {get_key(l.fcid, c.addr, i - 1) :
            <<c, i>> \in {q \in Range(l.cards) \X (1..2) : q[1].enabled[q[2]]}}
    ELSE {get_key(l.fcid, 0, 0)}
DeclaredKeys(d) == Range(get_key_lists(d)[1]) \cup Range(get_key_lists(d)[2])

\* C24: after set_header, the key lists returned by get_key_lists of each
\* ORFCIO decoder contain the keys of every listener of the header: for the
\* status decoder the board key and the n_card card keys of each stream, for
\* the event decoder every enabled channel key of each stream.
C24_KeyListsCoverEveryListener ==
    \A n \in DecNames :
        orca.sess[1].dec[n].ready =>
            \A i \in DOMAIN orca.sess[1].header :
                ListenerKeys(n, orca.sess[1].header[i]) \subseteq DeclaredKeys(orca.sess[1].dec[n])
\* the last ORFCIO decode_packet call: its decoder and the listener of the
\* session's header for the packet's stream
LastDec == orca.sess[orca.last.session].dec[orca.last.dec]
LastInfo == StreamInfo(orca.sess[orca.last.session].header, orca.last.streamid)
OrcaDecoded == ret.op = "decode_packet" /\ orca.last.dec # ""

\* C21: reader state is scoped to a session: the reader a session's
\* configuration packet is decoded with holds that session's configuration,
\* never the one another session of the process opened for the same stream
\* id, so the packet is decoded rather than rejected as already open.
C21_ReaderScopedToSession ==
    (OrcaDecoded /\ orca.last.dec = "ORFCIOConfigDecoder")
        => orca.readers[orca.last.inst].session = orca.last.session

\* C22: an ORFCIO decode_packet returns True exactly when a nested
\* decode_packet call made for the envelope returned True; an envelope
\* without a record of a tag the decoder handles writes no row and gives
\* False.
C22_TrueIffNestedReturnedTrue ==
    OrcaDecoded
        => /\ (ret.kind = "return" /\ ret.val = "True") <=> ("True" \in Range(orca.last.nested))
           /\ (\A i \in DOMAIN orca.last.recs : ~Handles(orca.last.dec, orca.last.recs[i]))
                 => (orca.last.rows = <<0, 0>> /\ ret.kind = "return" /\ ret.val = "False")

\* C23: when FSP is enabled for the stream, every record dispatched to the
\* primary decoder is also decoded by the FSP decoder, which adds one row
\* per record to the buffer declared for the derived key, and the call
\* returns.
C23_FspRowPerDispatchedRecord ==
    (OrcaDecoded /\ LastInfo.fsp_enabled /\ orca.last.dispatched > 0)
        => /\ ret.kind = "return"
           /\ orca.last.before[2].declared
           /\ orca.last.rows[2] = orca.last.dispatched

\* C26: one decode_packet call writes at most get_max_rows_in_packet() rows
\* into any one buffer, and a buffer that was not full before the call and
\* whose fill_safety is at least that value is not written past its last row.
C26_RowsPerCallBounded ==
    OrcaDecoded
        => \A j \in 1..2 :
              /\ orca.last.rows[j] <= get_max_rows_in_packet(orca.last.dec, LastDec)
              /\ (/\ orca.last.before[j].declared
                  /\ ~BufFull(orca.last.before[j])
                  /\ orca.last.before[j].fill_safety
                        >= get_max_rows_in_packet(orca.last.dec, LastDec))
                    => ~(orca.last.overflow /\ orca.last.rows[j] > 0)
\* the schema set_channel_configs built for channel fch
SchemaOf(fch) ==
    llama.decoded_values[CHOOSE i \in DOMAIN llama.decoded_values :
                            llama.decoded_values[i].fch = fch].schema
ConfiguredIds == {llama.channel_configs[i].fch : i \in DOMAIN llama.channel_configs}
\* the key lists returned are a partition of the configured channel ids
KeyListsPartition ==
    /\ \A fch \in ConfiguredIds :
          Cardinality({k \in DOMAIN llama.kll : fch \in Range(llama.kll[k])}) = 1
    /\ \A k \in DOMAIN llama.kll :
          /\ llama.kll[k] # <<>>
          /\ Range(llama.kll[k]) \subseteq ConfiguredIds
          /\ Cardinality(Range(llama.kll[k])) = Len(llama.kll[k])

\* C25: LLAMAEventDecoder.get_key_lists returns a partition of the
\* configured channel ids (every id in exactly one list, no list empty), and
\* any two ids of one list have identical decoded_values as built by
\* set_channel_configs.
C25_KeyListsShareOneSchema ==
    (ret.op = "LLAMAEventDecoder.get_key_lists" /\ ret.kind = "return")
        => /\ KeyListsPartition
           /\ \A k \in DOMAIN llama.kll :
                 \A a, b \in Range(llama.kll[k]) : SchemaOf(a) = SchemaOf(b)

SchemaOps ==
    {"LLAMAEventDecoder.get_key_lists", "LLAMAEventDecoder.get_decoded_values",
     "ORFCIOEventDecoder.get_decoded_values"}

\* C29: a request for key groups or for a schema made before the hardware
\* configuration was observed raises and returns nothing:
\* LLAMAEventDecoder.get_key_lists and get_decoded_values before
\* set_channel_configs, ORFCIOEventDecoder.get_decoded_values before
\* set_header.
C29_EarlySchemaRequestRaises ==
    (ret.op \in SchemaOps /\ llama.asked)
        => /\ ret.kind = "raise"
           /\ ret.val \in {"RuntimeError", "KeyError"}
           /\ llama.kll = <<>> /\ llama.schema = <<>>
\* C29 witness: each of the three requests was made before the configuration,
\* the last of them just now
C29_Witness ==
    /\ ret.op \in SchemaOps /\ llama.asked /\ ret.kind = "raise"
    /\ llama.early = {"get_key_lists", "get_decoded_values",
                      "ORFCIOEventDecoder.get_decoded_values"}
MadeLgdo == ret.op = "make_lgdo"
Supported ==
    {"", "waveform", "array_of_equalsized_arrays<1,1>{real}", "array<1>{array<1>{real}}"}

\* C27: make_lgdo(key, size) returns a table with one column per field of
\* the schema, in its order: a field without datatype is a flat array of
\* size rows with the declared dtype; a waveform field is a composite with
\* wf_len samples per row, and a storage hint (compression, hdf5_settings)
\* is attached to values, t0 or dt exactly when it was given for that
\* sub-field; a fixed-width 2D field is a block of size rows by length.
C27_TableMatchesSchema ==
    (MadeLgdo /\ ret.kind = "return")
        => /\ Len(mk.table) = Len(mk.before)
           /\ \A i \in DOMAIN mk.before :
                LET a == mk.before[i].attrs
                    c == mk.table[i]
                IN
                /\ c.name = mk.before[i].field
                /\ a.datatype = ""
                      => (c.lgdo = "Array" /\ c.rows = mk.size /\ c.dtype = a.dtype)
                /\ a.datatype = "waveform"
                      => /\ c.lgdo = "WaveformTable" /\ c.width = a.wf_len
                         /\ \A el \in Range(SubFields) :
                               /\ <<el, "compression">> \in c.hints <=> el \in a.compression.on
                               /\ <<el, "hdf5_settings">> \in c.hints
                                     <=> el \in a.hdf5_settings.on
                /\ a.datatype = "array_of_equalsized_arrays<1,1>{real}"
                      => (c.lgdo = "ArrayOfEqualSizedArrays" /\ c.rows = mk.size
                          /\ c.width = a.length)
\* C27 witness: a flat field and a waveform with a compression hint for
\* values and an hdf5 hint for dt have become a table of two columns
C27_Witness ==
    /\ MadeLgdo /\ ret.kind = "return" /\ mk.size = 2
    /\ Len(mk.table) = 2
    /\ mk.table[1].lgdo = "Array" /\ mk.table[1].rows = 2
    /\ mk.table[2].lgdo = "WaveformTable" /\ mk.table[2].width = 3
    /\ mk.table[2].hints = {<<"values", "compression">>, <<"dt", "hdf5_settings">>}

\* C28: make_lgdo raises and returns no table when the decoder has no
\* decoded_values, when a field lacks dtype or when a field's datatype is not
\* a supported kind; whether it returns or raises, the schema it read is
\* unmodified, and a second call with the same size gives the same outcome.
C28_FailuresLeaveSchemaUntouched ==
    MadeLgdo
        => /\ (\/ ~mk.has
               \/ \E i \in DOMAIN mk.before : mk.before[i].attrs.dtype = ""
               \/ \E i \in DOMAIN mk.before : mk.before[i].attrs.datatype \notin Supported)
                 => (ret.kind = "raise" /\ mk.table = <<>>)
           /\ mk.decoded_values = mk.before
           /\ mk.calls = 2 => mk.first = <<[exc |-> mk.exc, table |-> mk.table]>>
\* C28 witness: the second call on a schema whose second field has an
\* unsupported datatype, after the attributes of the first field were used
C28_Witness ==
    /\ MadeLgdo /\ mk.calls = 2 /\ ret.val = "RuntimeError"
    /\ Len(mk.before) = 2
    /\ mk.before[1].attrs.datatype = "waveform" /\ mk.before[1].attrs.wf_len = 3
    /\ mk.before[2].attrs.datatype = "real"
OpenedStream == ret.op = "LLAMAStreamer.open_stream" /\ ~ls.was_open

\* C30: after LLAMAStreamer.open_stream on a well-formed llamaDAQ file the
\* header decoder holds version_major = 16-bit word 4, version_minor = word
\* 3, version_patch = word 2, length_econf = word 5 and number_chOpen =
\* 32-bit word 3 of the file header, the streamer has counted 16 +
\* number_chOpen * 88 bytes, and the stream is open, so that close_stream
\* succeeds.
C30_HeaderReadAndCounted ==
    (OpenedStream /\ WellFormedFile(ls.file))
        => /\ ret.kind = "return"
           /\ ls.version_major = ls.file.header[5]
           /\ ls.version_minor = ls.file.header[4]
           /\ ls.version_patch = ls.file.header[3]
           /\ ls.length_econf = ls.file.header[6]
           /\ ls.number_chOpen = ls.file.header[7] + 65536 * ls.file.header[8]
           /\ ls.n_bytes_read = 16 + ls.number_chOpen * 88
           /\ ls.in_stream
\* what a LLAMAStreamer and its header decoder hold, the history fields apart
StreamerState(s) ==
    <<s.in_stream, s.n_bytes_read, s.version_major, s.version_minor, s.version_patch,
      s.length_econf, s.number_chOpen, s.has_configs, s.channel_configs>>
OpenStream == "LLAMAStreamer.open_stream"
CloseStream == "LLAMAStreamer.close_stream"

\* C32: LLAMAStreamer alternates between closed and open. open_stream on an
\* open streamer and close_stream on a closed one raise RuntimeError and
\* leave the streamer as it was; close_stream on an open streamer returns
\* and leaves it closed, and open_stream on a closed streamer - the first
\* time or after a close - is not refused: it takes the stream, and what
\* it answers is what the header of its file alone decides.
C32_StreamerAlternates ==
    [][ /\ (ret'.op = OpenStream /\ ls'.opens # ls.opens /\ ls.in_stream)
            => /\ ret'.kind = "raise" /\ ret'.val = "RuntimeError"
               /\ StreamerState(ls') = StreamerState(ls)
        /\ (ret'.op = CloseStream /\ ret' # ret /\ ~ls.in_stream)
            => /\ ret'.kind = "raise" /\ ret'.val = "RuntimeError"
               /\ StreamerState(ls') = StreamerState(ls)
        /\ (ret'.op = CloseStream /\ ret' # ret /\ ls.in_stream)
            => (ret'.kind = "return" /\ ~ls'.in_stream)
        /\ (ret'.op = OpenStream /\ ls'.opens # ls.opens /\ ~ls.in_stream)
            => /\ ls'.in_stream
               /\ LET first == decode_header([NoLs EXCEPT !.in_stream = TRUE], ls'.file) IN
                  IF first.exc = None THEN ret'.kind = "return"
                  ELSE ret'.kind = "raise" /\ ret'.val = first.exc
      ]_vars
\* C32 witness: the streamer was opened, closed and opened again, and the
\* second open_stream returned
C32_Witness ==
    /\ ret.op = OpenStream /\ ret.kind = "return"
    /\ ls.opens = 2 /\ ~ls.was_open /\ ls.in_stream

\* C38: when open_stream on a closed streamer fails in decode_header with
\* RuntimeError (wrong magic word, per-channel config length other than 88,
\* a channel configured twice), the streamer is left closed.
C38_FailedOpenLeavesClosed ==
    (OpenedStream /\ ret.kind = "raise" /\ ret.val = "RuntimeError") => ~ls.in_stream

BadMagic(file) == ~(evt_data_16(file, 0) = MagicLo /\ evt_data_16(file, 1) = MagicHi)
BadLength(file) == evt_data_16(file, 5) # EconfLength
Duplicate(file) ==
    \E i, j \in 1..evt_data_32(file, 3) : i # j /\ file.channels[i] = file.channels[j]

\* C39: decode_header (reached by open_stream on a closed streamer) fails
\* exactly when the magic word is wrong, the per-channel config length is
\* not 88 or a (FADC, channel) pair is configured twice; every other header
\* is decoded, also one with no open channel or without FADC 0 / channel 0.
C39_HeaderFailsExactlyOnThree ==
    OpenedStream
        => (ret.kind = "raise"
              <=> (BadMagic(ls.file) \/ BadLength(ls.file) \/ Duplicate(ls.file)))
ConfigCalled ==
    /\ fcio_returned' # fcio_returned
    /\ orca'.last.dec = "ORFCIOConfigDecoder"

\* C33: a reader is opened at most once. ORFCIOConfigDecoder.decode_packet
\* for a stream id whose reader is already open raises NotImplementedError,
\* leaves every reader as it was (the open one keeps the stream and the
\* session that opened it) and changes the loc of no buffer; and no other
\* step touches a reader that is open.
C33_OpenReaderNotReopened ==
    [][ /\ (ConfigCalled /\ orca.readers[Fetched(orca'.last.streamid)].open)
            => /\ ret'.kind = "raise" /\ ret'.val = "NotImplementedError"
               /\ orca'.readers = orca.readers
               /\ \A x \in Sessions : orca'.sess[x].buf = orca.sess[x].buf
        /\ \A inst \in DOMAIN orca.readers :
              orca.readers[inst].open => orca'.readers[inst] = orca.readers[inst]
      ]_vars
\* C33 witness: a second configuration packet of stream 1 was refused after
\* the first had opened the reader and left a row in the configuration buffer
C33_Witness ==
    /\ OrcaDecoded /\ orca.last.dec = "ORFCIOConfigDecoder"
    /\ ret.kind = "raise" /\ ret.val = "NotImplementedError"
    /\ orca.readers[orca.last.inst].open
    /\ \E j \in 1..2 : orca.last.before[j].declared /\ orca.last.before[j].loc = 1
FspDisabled(header) ==
    LET h == extract_header_information(header).info IN
    \A i \in DOMAIN h : ~h[i].fsp_enabled

\* C36: when FSP is disabled for every stream of the header, the
\* configuration and status decoders' decode_packet (a configuration packet
\* refused because its reader is open apart) decode each record they
\* handle with the primary decoder only and return its fullness: they do
\* not raise, one nested value per record, True iff one of them was True.
C36_NoFspPrimaryOnly ==
    (/\ OrcaDecoded
     /\ orca.last.dec \in {"ORFCIOConfigDecoder", "ORFCIOStatusDecoder"}
     /\ FspDisabled(orca.sess[orca.last.session].header)
     /\ ret.val # "NotImplementedError")
        => /\ ret.kind = "return"
           /\ Len(orca.last.nested) = orca.last.dispatched
           /\ ret.val = Str("True" \in Range(orca.last.nested))
\* what entry e of a config has of its own for the second loop: its key when
\* it has exactly one, no wildcard; its name unless the name is "*"
OwnKw(e) ==
    [has_key |-> Len(e.info.key_list) = 1 /\ ~IsWildcard(e.info.key_list),
     key |-> IF e.info.key_list = <<>> THEN NoKw.key ELSE e.info.key_list[1],
     has_name |-> e.name # <<"*">>, name |-> e.name]

\* C37: expand_rblist_dict called with an empty kw_dict fills the
\* references of a buffer's out_stream with that buffer's own key and name
\* only: an out_stream is either left as written or formatted with the key
\* and name of its own entry, and one that refers to {key} without a single
\* key of its own, or to {name} under the name "*", is never formatted.
C37_OutStreamOwnKeyAndName ==
    [][ (expand.pc = "for" /\ expand'.pc \in {"return", "raise"}
         /\ expand.buffer_names = <<>>)
          => \A j \in DOMAIN expand.config :
                LET e == expand.config[j]
                    t == e.info.out_stream
                    o == expand'.config[j].info.out_stream
                IN
                e.info.has_out_stream
                    => \/ o = t
                       \/ ~FormatFails(t, OwnKw(e)) /\ o = Format(t, OwnKw(e))
      ]_vars
\* the (0-based) 32-bit words decode_packet reads for sub-record k of a
\* packet, and for its trailer (part 4): one word, two with averaged data
WordsRead(pkt, k) ==
    IF k < 4
    THEN {st[2] : st \in {s \in Range(FieldSteps(format_bits(pkt))) : s[1] \in SubRecord(k)}}
    ELSE LET o4 == Offset4(format_bits(pkt)) IN
         {o4} \cup (IF o4 < Len(pkt) /\ pkt[o4 + 1].hi \div 2 ^ 12 = TagAvg
                    THEN {o4 + 1} ELSE {})

\* C35: decode_packet decodes no payload word twice: for every format
\* selector the words read for the peak/accumulator 1-6 group, the
\* accumulator 7-8 group, the MAW group, the energy pair and the trailer
\* are pairwise disjoint.
C35_NoWordDecodedTwice ==
    LLAMADecoded
        => \A a, b \in 0..4 : a # b => WordsRead(packet, a) \cap WordsRead(packet, b) = {}

\* C34: every field of every row below a buffer's cursor holds a value
\* decoded from the accepted packet that produced the row: none holds what
\* a rejected packet or a row from before the last cursor reset left there.
C34_RowsHoldOwnPacketOnly ==
    \A b \in DOMAIN cells : \A i \in DOMAIN cells[b] : i < loc[b] => cells[b][i].other = {}

RECURSIVE SumLens(_, _)
SumLens(rows, i) == IF i = 0 THEN 0 ELSE rows[i].lens + SumLens(rows, i - 1)

\* C40: after n accepted FSPEventDecoder.decode_packet calls since the
\* buffer's cursor was last 0, for every row i < n (rows counted from 1
\* here) both ragged fields have cumulative_length[i] equal to the sum of
\* the multiplicities of the rows up to i, row i occupies flattened_data
\* from cumulative_length[i-1] (0 for the first row) up to
\* cumulative_length[i], so that rows never overlap - also for rows written
\* after a cursor reset.
C40_RaggedOffsetsCumulative ==
    \A b \in DOMAIN ragged :
        LET r == ragged[b] IN
        loc[b] > 0
            => /\ Len(r.rows) = loc[b]
               /\ \A f \in RaggedFields : \A i \in 1..loc[b] :
                    /\ r[f].cumulative_length[i] = SumLens(r.rows, i)
                    /\ \A j \in (SumLens(r.rows, i - 1) + 1)..SumLens(r.rows, i) :
                          r[f].flattened_data[j] = r.rows[i].call
\* C40 witness: two rows of multiplicities 1 and 2 written after a reset,
\* over two rows of multiplicities 2 and 1 written before it
C40_Witness ==
    /\ ret.op = "FSPEventDecoder.decode_packet" /\ ret.kind = "return"
    /\ 1 \in DOMAIN ragged /\ loc[1] = 2
    /\ ragged[1].calls = 4
    /\ ragged[1].rows = <<[call |-> 3, lens |-> 1], [call |-> 4, lens |-> 2]>>
    /\ ragged[1].obs_ct_max.cumulative_length[1] = 1
    /\ ragged[1].obs_ct_max.cumulative_length[2] = 3
    /\ ragged[1].obs_ct_max.flattened_data[1] = 3

\* both threads have decoded every event of their streams
ThreadsDone ==
    /\ "pc" \in DOMAIN threads
    /\ \A t \in Threads : threads.pc[t] = "idle" /\ threads.left[t] = 0

\* C31: when the events of two different stream ids are decoded by two
\* threads, each stream's events in order within its own thread, no row is
\* lost or overwritten: at the end the loc of every buffer equals the number
\* of rows decoded into it, every row below loc holds exactly one event and
\* no event is stored at or above loc - also when both streams are routed to
\* the same buffer.
C31_ThreadsLoseNoRow ==
    ThreadsDone
        => \A b \in Bufs :
              /\ loc[b] = threads.rows[b]
              /\ \A i \in 0..(MaxCap - 1) :
                    Cardinality(threads.stored[b][i]) = IF i < loc[b] THEN 1 ELSE 0
====
